---- MODULE Spec2Model ----
(***************************************************************************)
(* Model of the Sei network analyzer (10234567Z/autoalpha-sei):            *)
(*   src/mcp-agents/mcp/server/analyze_server.py       SeiAnalyzer and the *)
(*                                                     analyze_wallet tool *)
(*   src/mcp-agents/mcp/server/analyze_server_live.py  analyze_wallet_live *)
(*                                                                         *)
(* Python floats are IEEE-754 binary64.  Where the result of an operation  *)
(* decides a band (calculate_whale_score), the operation is computed with  *)
(* the 53-bit significand and round-to-nearest-even of binary64.  The      *)
(* other scores are computed as exact rationals <<numerator, denominator>>.*)
(***************************************************************************)
EXTENDS Integers, Sequences, FiniteSets, TLC

VARIABLES
    call,   \* the tool call being served
    ret,    \* what it returned
    prev,   \* an earlier call with what it returned
    now,    \* the clock, in seconds
    request, \* the _make_request call in progress, with the endpoints it contacted
    network_cache, \* _network_cache of the analyzer of analyze_server_live.py,
                   \* as the set of its entries
    http_network_cache, \* _network_cache of the analyzer of analyze_server_live_http.py
    stats_calls    \* the get_network_stats call of each client

vars == <<call, ret, prev, now, request, network_cache, http_network_cache, stats_calls>>

\* what serving a tool call leaves alone
outside_tools == <<now, request, network_cache, http_network_cache, stats_calls>>

\* what get_network_stats leaves alone
outside_stats == <<call, ret, prev, request, http_network_cache>>

(***************************************************************************)
(* binary64 arithmetic.  A positive float is [m |-> bits, e |-> exponent]: *)
(* m is the significand, PREC bits, most significant first, and the value  *)
(* is m * 2^e.                                                             *)
(***************************************************************************)
PREC == 53

\* big naturals are also held as limbs of LIMB bits, most significant first
LIMB == 12

Pow2(k) == 2 ^ k

\* the number of binary digits of 0 < n < 2^31
BitLength(n) == CHOOSE l \in 1..31 : n \div Pow2(l - 1) = 1

\* the binary digits of 0 < n < 2^31, most significant first
Bits(n) == [i \in 1..BitLength(n) |-> (n \div Pow2(BitLength(n) - i)) % 2]

Zeros(k) == [i \in 1..k |-> 0]

\* bits without its leading zeros
StripZeros(bits) ==
    LET ones == {i \in 1..Len(bits) : bits[i] = 1}
    IN  IF ones = {} THEN <<>>
        ELSE SubSeq(bits, CHOOSE i \in ones : \A j \in ones : i <= j, Len(bits))

RECURSIVE BitsToInt(_)
\* the value of at most LIMB bits
BitsToInt(bits) ==
    IF bits = <<>> THEN 0
    ELSE 2 * BitsToInt(SubSeq(bits, 1, Len(bits) - 1)) + bits[Len(bits)]

\* bits -> limbs (the bits are padded in front to a whole number of limbs)
ToLimbs(bits) ==
    LET n      == (Len(bits) + LIMB - 1) \div LIMB
        padded == Zeros(n * LIMB - Len(bits)) \o bits
    IN  [j \in 1..n |-> BitsToInt(SubSeq(padded, (j - 1) * LIMB + 1, j * LIMB))]

\* limbs -> bits, leading zeros dropped
FromLimbs(limbs) ==
    StripZeros([i \in 1..(Len(limbs) * LIMB) |->
        (limbs[((i - 1) \div LIMB) + 1] \div Pow2(LIMB - 1 - ((i - 1) % LIMB))) % 2])

RECURSIVE DivLimbs(_, _, _, _)
\* schoolbook division of limbs[i..] by 0 < d < 2^18 with running remainder r:
\* [q |-> quotient limbs, r |-> remainder]
DivLimbs(limbs, d, r, i) ==
    IF i > Len(limbs) THEN [q |-> <<>>, r |-> r]
    ELSE LET cur  == r * Pow2(LIMB) + limbs[i]
             rest == DivLimbs(limbs, d, cur % d, i + 1)
         IN  [q |-> <<cur \div d>> \o rest.q, r |-> rest.r]

RECURSIVE MulLimbs(_, _, _, _)
\* limbs[1..i] * k + carry for 0 < k < 2^18, as limbs
MulLimbs(limbs, k, carry, i) ==
    IF i = 0 THEN (IF carry = 0 THEN <<>> ELSE <<carry>>)
    ELSE LET v == limbs[i] * k + carry
         IN  Append(MulLimbs(limbs, k, v \div Pow2(LIMB), i - 1), v % Pow2(LIMB))

\* bits + 1; the result is one bit longer when every bit was 1
Inc(bits) ==
    LET zeros == {i \in 1..Len(bits) : bits[i] = 0}
    IN  IF zeros = {} THEN <<1>> \o Zeros(Len(bits))
        ELSE LET z == CHOOSE i \in zeros : \A j \in zeros : j <= i
             IN  [i \in 1..Len(bits) |->
                    IF i < z THEN bits[i] ELSE IF i = z THEN 1 ELSE 0]

\* round-to-nearest, ties-to-even: q holds at least PREC + 1 bits of a value
\* q * 2^e, sticky tells whether non-zero digits follow q
RoundNearestEven(q, e, sticky) ==
    LET m      == SubSeq(q, 1, PREC)
        guard  == q[PREC + 1]
        rest   == sticky \/ \E i \in (PREC + 2)..Len(q) : q[i] = 1
        up     == guard = 1 /\ (rest \/ m[PREC] = 1)
        m1     == IF up THEN Inc(m) ELSE m
        e1     == e + (Len(q) - PREC)
    IN  IF Len(m1) > PREC
        THEN [m |-> SubSeq(m1, 1, PREC), e |-> e1 + 1]
        ELSE [m |-> m1, e |-> e1]

\* int -> float (exact for 0 < n < 2^31)
FromInt(n) ==
    LET b == Bits(n)
    IN  [m |-> b \o Zeros(PREC - Len(b)), e |-> Len(b) - PREC]

\* the fraction bits carried through a division before it is rounded
GUARD == 40

\* x / (d[1] * d[2]), correctly rounded; the divisor is given by two factors
\* 0 < d[i] < 2^18 (floor(floor(n / a) / b) = floor(n / (a * b)))
FDiv(x, d) ==
    LET num == ToLimbs(x.m \o Zeros(GUARD))
        q1  == DivLimbs(num, d[1], 0, 1)
        q2  == DivLimbs(q1.q, d[2], 0, 1)
    IN  RoundNearestEven(FromLimbs(q2.q), x.e - GUARD, q1.r # 0 \/ q2.r # 0)

\* x * k, correctly rounded, for an integer 0 < k < 2^18
FMul(x, k) ==
    LET limbs == ToLimbs(x.m)
        p     == FromLimbs(MulLimbs(limbs, k, 0, Len(limbs)))
    IN  RoundNearestEven(p \o <<0>>, x.e - 1, FALSE)

\* x >= y
FGeq(x, y) ==
    LET diff == {i \in 1..PREC : x.m[i] # y.m[i]}
    IN  \/ x.e > y.e
        \/ /\ x.e = y.e
           /\ \/ diff = {}
              \/ LET i == CHOOSE k \in diff : \A j \in diff : k <= j
                 IN  x.m[i] > y.m[i]

\* the float a decimal literal n/d denotes (d < 2^18): the nearest binary64
Literal(n, d) == FDiv(FromInt(n), <<d, 1>>)

(***************************************************************************)
(* Exact rationals <<n, d>> with d > 0, in lowest terms.                   *)
(***************************************************************************)
RECURSIVE GCD(_, _)
GCD(a, b) == IF b = 0 THEN a ELSE GCD(b, a % b)

Abs(x) == IF x < 0 THEN -x ELSE x

Rat(n, d) ==
    LET g == GCD(Abs(n), Abs(d))
        s == IF d < 0 THEN -1 ELSE 1
    IN  <<s * (n \div g), s * (d \div g)>>

RAdd(x, y) ==
    LET g == GCD(x[2], y[2])
    IN  Rat(x[1] * (y[2] \div g) + y[1] * (x[2] \div g), (x[2] \div g) * y[2])

RSub(x, y) == RAdd(x, <<-y[1], y[2]>>)

RMul(x, y) ==
    LET g1 == GCD(Abs(x[1]), y[2])
        g2 == GCD(Abs(y[1]), x[2])
    IN  IF x[1] = 0 \/ y[1] = 0 THEN <<0, 1>>
        ELSE <<(x[1] \div g1) * (y[1] \div g2), (x[2] \div g2) * (y[2] \div g1)>>

REq(x, y)  == x[1] * y[2] = y[1] * x[2]
RLt(x, y)  == x[1] * y[2] < y[1] * x[2]
RLeq(x, y) == x[1] * y[2] <= y[1] * x[2]
RMin(x, y) == IF RLt(y, x) THEN y ELSE x

(***************************************************************************)
(* SeiAnalyzer (analyze_server.py)                                         *)
(***************************************************************************)
\* total_supply = 10_000_000_000, as the two factors FDiv divides by
TotalSupply == <<100000, 100000>>

\* the float literals of the table
Float_1_0    == Literal(1, 1)
Float_0_1    == Literal(1, 10)
Float_0_01   == Literal(1, 100)
Float_0_001  == Literal(1, 1000)
Float_0_0001 == Literal(1, 10000)

\* a mis-ordered table: the 0.7 and 0.5 rows exchanged
calculate_whale_score_rows_swapped(balance, total_supply) ==
    IF balance <= 0 THEN <<0, 1>>
    ELSE LET percentage_of_supply == FMul(FDiv(FromInt(balance), total_supply), 100)
         IN  IF FGeq(percentage_of_supply, Float_1_0) THEN <<1, 1>>
             ELSE IF FGeq(percentage_of_supply, Float_0_1) THEN <<9, 10>>
             ELSE IF FGeq(percentage_of_supply, Float_0_01) THEN <<5, 10>>
             ELSE IF FGeq(percentage_of_supply, Float_0_001) THEN <<7, 10>>
             ELSE IF FGeq(percentage_of_supply, Float_0_0001) THEN <<3, 10>>
             ELSE <<1, 10>>

calculate_whale_score(balance, total_supply) ==
    IF balance <= 0 THEN <<0, 1>>
    ELSE LET percentage_of_supply == FMul(FDiv(FromInt(balance), total_supply), 100)
         IN  IF FGeq(percentage_of_supply, Float_1_0) THEN <<1, 1>>
             ELSE IF FGeq(percentage_of_supply, Float_0_1) THEN <<9, 10>>
             ELSE IF FGeq(percentage_of_supply, Float_0_01) THEN <<7, 10>>
             ELSE IF FGeq(percentage_of_supply, Float_0_001) THEN <<5, 10>>
             ELSE IF FGeq(percentage_of_supply, Float_0_0001) THEN <<3, 10>>
             ELSE <<1, 10>>

\* round(x, 3) of the exact value n / d, in thousandths. The binary64 value
\* the code holds is within 2^-50 of n / d, so both round to the same
\* thousandth unless n / d lies exactly halfway between two (HalfwayAt3);
\* halfway, Python rounds a value it holds exactly to the even thousandth.
Round3(x) ==
    LET n  == x[1]
        d  == x[2]
        s1 == (n % d) * 10
        s2 == (s1 % d) * 10
        s3 == (s2 % d) * 10
        q  == (n \div d) * 1000 + (s1 \div d) * 100 + (s2 \div d) * 10 + (s3 \div d)
        r  == s3 % d
    IN  IF 2 * r > d \/ (2 * r = d /\ q % 2 = 1) THEN q + 1 ELSE q

\* n / d is an odd multiple of 0.0005: there the rounding errors of the
\* binary64 sum, not its exact value, decide what round(x, 3) returns
HalfwayAt3(x) ==
    LET n  == x[1]
        d  == x[2]
        s1 == (n % d) * 10
        s2 == (s1 % d) * 10
        s3 == (s2 % d) * 10
    IN  2 * (s3 % d) = d

RECURSIVE SumRange(_, _, _)
\* f[lo] + ... + f[hi]
SumRange(f, lo, hi) ==
    IF lo > hi THEN 0
    ELSE IF lo = hi THEN f[lo]
    ELSE LET mid == (lo + hi) \div 2
         IN  SumRange(f, lo, mid) + SumRange(f, mid + 1, hi)

\* sum(seq)
Sum(seq) == SumRange(seq, 1, Len(seq))

\* max(seq), min(seq) of a non-empty sequence
MaxOf(seq) ==
    LET vals == {seq[i] : i \in DOMAIN seq}
    IN  CHOOSE m \in vals : \A v \in vals : v <= m

MinOf(seq) ==
    LET vals == {seq[i] : i \in DOMAIN seq}
    IN  CHOOSE m \in vals : \A v \in vals : m <= v

\* sorted(seq)[k], 1-based
SortedAt(seq, k) ==
    LET vals == {seq[i] : i \in DOMAIN seq}
    IN  CHOOSE v \in vals :
            /\ Cardinality({i \in DOMAIN seq : seq[i] < v}) < k
            /\ k <= Cardinality({i \in DOMAIN seq : seq[i] <= v})

\* statistics.mean, statistics.median of a non-empty sequence of integers
Mean(seq) == Rat(Sum(seq), Len(seq))

Median(seq) ==
    LET n == Len(seq)
    IN  IF n % 2 = 1 THEN <<SortedAt(seq, (n \div 2) + 1), 1>>
        ELSE Rat(SortedAt(seq, n \div 2) + SortedAt(seq, (n \div 2) + 1), 2)

\* a key the dict does not hold
Absent == <<"absent", 0>>

\* the amounts: float(tx.get('amount', 0))
Amounts(transactions) ==
    [i \in DOMAIN transactions |-> transactions[i].amount]

\* a narrower reading: the senders alone
Counterparties_senders_only(transactions) ==
    {transactions[i].from : i \in {j \in DOMAIN transactions : transactions[j].from # Absent}}

\* the union of the 'from' and 'to' values that are present
Counterparties(transactions) ==
    {transactions[i].from : i \in {j \in DOMAIN transactions : transactions[j].from # Absent}}
    \cup
    {transactions[i].to : i \in {j \in DOMAIN transactions : transactions[j].to # Absent}}

calculate_risk_factor(transactions, balance) ==
    IF transactions = <<>> THEN <<1, 2>>
    ELSE LET tx_count == Len(transactions)
             frequency ==
                 IF tx_count > 1000 THEN <<8, 10>>
                 ELSE IF tx_count > 100 THEN <<6, 10>>
                 ELSE <<3, 10>>
             amounts    == Amounts(transactions)
             avg_amount == Mean(amounts)
             max_amount == MaxOf(amounts)
             amount ==
                 IF 2 * max_amount > balance THEN <<7, 10>>
                 ELSE IF RLt(Rat(balance, 10), avg_amount) THEN <<6, 10>>
                 ELSE <<3, 10>>
             unique_counterparties == Counterparties(transactions)
             counterparty_ratio ==
                 Rat(Cardinality(unique_counterparties),
                     IF tx_count > 1 THEN tx_count ELSE 1)
             pattern ==
                 IF RLt(counterparty_ratio, <<1, 10>>) THEN <<8, 10>>
                 ELSE IF RLt(counterparty_ratio, <<3, 10>>) THEN <<6, 10>>
                 ELSE <<3, 10>>
             mean == RMul(RAdd(RAdd(frequency, amount), pattern), <<1, 3>>)
         IN  RMin(mean, <<1, 1>>)

\* what a raised exception is modelled by
ZeroDivisionError == "ZeroDivisionError"

\* the weighted sum with the terms capped after weighting instead of before
calculate_influence_score_capped_late(transactions, balance) ==
    IF transactions = <<>> THEN <<1, 10>>
    ELSE IF balance * 10 = 0 THEN ZeroDivisionError
    ELSE LET total_volume   == Sum(Amounts(transactions))
             volume_score   ==
                 RMin(RMul(Rat(total_volume, balance * 10), <<4, 10>>), <<1, 1>>)
             tx_count       == Len(transactions)
             activity_score ==
                 RMin(RMul(Rat(tx_count, 1000), <<3, 10>>), <<1, 1>>)
             unique_addresses == Counterparties(transactions)
             network_score  ==
                 RMin(RMul(Rat(Cardinality(unique_addresses), 100), <<3, 10>>), <<1, 1>>)
         IN  RMin(RAdd(RAdd(volume_score, activity_score), network_score), <<1, 1>>)

calculate_influence_score(transactions, balance) ==
    IF transactions = <<>> THEN <<1, 10>>
    ELSE IF balance * 10 = 0 THEN ZeroDivisionError
    ELSE LET total_volume   == Sum(Amounts(transactions))
             volume_score   ==
                 RMul(RMin(Rat(total_volume, balance * 10), <<1, 1>>), <<4, 10>>)
             tx_count       == Len(transactions)
             activity_score ==
                 RMul(RMin(Rat(tx_count, 1000), <<1, 1>>), <<3, 10>>)
             unique_addresses == Counterparties(transactions)
             network_score  ==
                 RMul(RMin(Rat(Cardinality(unique_addresses), 100), <<1, 1>>), <<3, 10>>)
         IN  RMin(RAdd(RAdd(volume_score, activity_score), network_score), <<1, 1>>)

\* sum(1 for tx in transactions if tx.get('type') == kind)
CountType(transactions, kind) ==
    Cardinality({i \in DOMAIN transactions : transactions[i].type = kind})

\* the direction rules without their factor of two
analyze_transaction_patterns_plain_majority(transactions) ==
    IF transactions = <<>>
    THEN [pattern |-> "no_activity", description |-> "No transactions found"]
    ELSE LET tx_count      == Len(transactions)
             amounts       == Amounts(transactions)
             avg_amount    == Mean(amounts)
             median_amount == Median(amounts)
             max_amount    == MaxOf(amounts)
             incoming      == CountType(transactions, "incoming")
             outgoing      == CountType(transactions, "outgoing")
             patterns ==
                 IF tx_count > 1000 THEN <<"high_frequency_trader">>
                 ELSE IF incoming > outgoing THEN <<"accumulator">>
                 ELSE IF outgoing > incoming THEN <<"distributor">>
                 ELSE IF RLt(RMul(median_amount, <<3, 1>>), avg_amount)
                      THEN <<"irregular_amounts">>
                 ELSE <<"regular_user">>
         IN  [primary_pattern   |-> IF patterns # <<>> THEN patterns[1] ELSE "unknown",
              transaction_count |-> tx_count,
              average_amount    |-> avg_amount,
              median_amount     |-> median_amount,
              max_amount        |-> max_amount,
              incoming_ratio    |-> Rat(incoming, IF tx_count > 1 THEN tx_count ELSE 1),
              outgoing_ratio    |-> Rat(outgoing, IF tx_count > 1 THEN tx_count ELSE 1),
              patterns          |-> patterns]

analyze_transaction_patterns(transactions) ==
    IF transactions = <<>>
    THEN [pattern |-> "no_activity", description |-> "No transactions found"]
    ELSE LET tx_count      == Len(transactions)
             amounts       == Amounts(transactions)
             avg_amount    == Mean(amounts)
             median_amount == Median(amounts)
             max_amount    == MaxOf(amounts)
             incoming      == CountType(transactions, "incoming")
             outgoing      == CountType(transactions, "outgoing")
             patterns ==
                 IF tx_count > 1000 THEN <<"high_frequency_trader">>
                 ELSE IF incoming > outgoing * 2 THEN <<"accumulator">>
                 ELSE IF outgoing > incoming * 2 THEN <<"distributor">>
                 ELSE IF RLt(RMul(median_amount, <<3, 1>>), avg_amount)
                      THEN <<"irregular_amounts">>
                 ELSE <<"regular_user">>
         IN  [primary_pattern   |-> IF patterns # <<>> THEN patterns[1] ELSE "unknown",
              transaction_count |-> tx_count,
              average_amount    |-> avg_amount,
              median_amount     |-> median_amount,
              max_amount        |-> max_amount,
              incoming_ratio    |-> Rat(incoming, IF tx_count > 1 THEN tx_count ELSE 1),
              outgoing_ratio    |-> Rat(outgoing, IF tx_count > 1 THEN tx_count ELSE 1),
              patterns          |-> patterns]

\* the substring test without .lower()
StakingInLower_case_sensitive(type) == type \in {"staking", "unstaking"}

\* 'staking' in tx.get('type', '').lower(), over the type tags of the model
StakingInLower(type) == type \in {"staking", "Staking", "unstaking"}

\* tx.get('to', '').startswith('sei1'): an address is <<prefix, number>>
StartsWithSei1(address) == address[1] = "sei1"

get_sei_specific_metrics(address, transactions) ==
    LET staking_txs ==
            {i \in DOMAIN transactions : StakingInLower(transactions[i].type)}
        delegation_amount ==
            Sum([i \in DOMAIN transactions |->
                    IF i \in staking_txs THEN transactions[i].amount ELSE 0])
        defi_txs ==
            {i \in DOMAIN transactions : StartsWithSei1(transactions[i].to)}
        defi_participation == defi_txs # {}
        sei_network_score ==
            RAdd(RAdd(RAdd(<<1, 2>>,
                           IF delegation_amount > 0 THEN <<2, 10>> ELSE <<0, 1>>),
                      IF defi_participation THEN <<2, 10>> ELSE <<0, 1>>),
                 IF Len(transactions) > 50 THEN <<1, 10>> ELSE <<0, 1>>)
    IN  [staking_amount         |-> delegation_amount,
         defi_participation     |-> defi_participation,
         sei_network_score      |-> RMin(sei_network_score, <<1, 1>>),
         validator_interactions |-> Cardinality(staking_txs)]

\* the chain with its last two rules exchanged
Classification_staker_before_defi(whale_score, influence_score, sei_metrics) ==
    IF RLeq(<<8, 10>>, whale_score) THEN "Whale"
    ELSE IF RLeq(<<5, 10>>, whale_score) THEN "Large Holder"
    ELSE IF RLeq(<<7, 10>>, influence_score) THEN "Active Trader"
    ELSE IF sei_metrics.staking_amount > 0 THEN "Staker"
    ELSE IF sei_metrics.defi_participation THEN "DeFi User"
    ELSE "Regular User"

\* the label of analyze_wallet (the if/elif chain)
Classification(whale_score, influence_score, sei_metrics) ==
    IF RLeq(<<8, 10>>, whale_score) THEN "Whale"
    ELSE IF RLeq(<<5, 10>>, whale_score) THEN "Large Holder"
    ELSE IF RLeq(<<7, 10>>, influence_score) THEN "Active Trader"
    ELSE IF sei_metrics.defi_participation THEN "DeFi User"
    ELSE IF sei_metrics.staking_amount > 0 THEN "Staker"
    ELSE "Regular User"

\* the weights of the live analysis, 0.4 / 0.3 / 0.3
OverallScore_live_weights(whale_score, risk_factor, influence_score) ==
    RAdd(RAdd(RMul(whale_score, <<4, 10>>),
              RMul(RSub(<<1, 1>>, risk_factor), <<3, 10>>)),
         RMul(influence_score, <<3, 10>>))

\* overall_score of analyze_wallet
OverallScore(whale_score, risk_factor, influence_score) ==
    RAdd(RAdd(RMul(whale_score, <<3, 10>>),
              RMul(RSub(<<1, 1>>, risk_factor), <<3, 10>>)),
         RMul(influence_score, <<4, 10>>))

\* k < n * 0.1 for integers k >= 0, n >= 0, the product taken in binary64
LessThanTenthOf(k, n) ==
    IF n = 0 THEN FALSE
    ELSE IF k = 0 THEN TRUE
    ELSE ~FGeq(FromInt(k), FMul(Float_0_1, n))

\* [x for x in items if x is not None]: items holds <<condition, text>> pairs
Triggered(items) ==
    LET on == {i \in DOMAIN items : items[i][1]}
        nth(k) == CHOOSE i \in on : Cardinality({j \in on : j < i}) = k - 1
    IN  [k \in 1..Cardinality(on) |-> items[nth(k)][2]]

\* the level with its breakpoints taken inclusive
RiskLevel_inclusive(risk_factor) ==
    IF RLeq(<<7, 10>>, risk_factor) THEN "High"
    ELSE IF RLeq(<<4, 10>>, risk_factor) THEN "Medium"
    ELSE "Low"

\* risk_assessment.level
RiskLevel(risk_factor) ==
    IF RLt(<<7, 10>>, risk_factor) THEN "High"
    ELSE IF RLt(<<4, 10>>, risk_factor) THEN "Medium"
    ELSE "Low"

\* risk_assessment.factors
RiskFactors(transactions, balance) ==
    LET senders == {transactions[i].from : i \in DOMAIN transactions}
    IN  Triggered(<<
            <<Len(transactions) > 1000, "High transaction frequency">>,
            <<LessThanTenthOf(Cardinality(senders), Len(transactions)),
              "Limited counterparties">>,
            <<\E i \in DOMAIN transactions : 2 * transactions[i].amount > balance,
              "Large transaction amounts">> >>)

\* the rules with the market-maker advisory given on the influence alone
Recommendations_any_count(transactions, risk_factor, influence_score, sei_metrics) ==
    Triggered(<<
        <<RLt(<<8, 10>>, risk_factor), "Monitor for wash trading">>,
        <<RLt(<<8, 10>>, influence_score), "Potential market maker">>,
        <<RLt(<<8, 10>>, sei_metrics.sei_network_score), "Strong network participant">>,
        <<sei_metrics.staking_amount > 1000000, "Consider for validator program">> >>)

\* the rules with the wash-trading advisory given above 0.7
Recommendations_wash_above_07(transactions, risk_factor, influence_score, sei_metrics) ==
    Triggered(<<
        <<RLt(<<7, 10>>, risk_factor), "Monitor for wash trading">>,
        <<RLt(<<8, 10>>, influence_score) /\ Len(transactions) > 500,
          "Potential market maker">>,
        <<RLt(<<8, 10>>, sei_metrics.sei_network_score), "Strong network participant">>,
        <<sei_metrics.staking_amount > 1000000, "Consider for validator program">> >>)

\* recommendations
Recommendations(transactions, risk_factor, influence_score, sei_metrics) ==
    Triggered(<<
        <<RLt(<<8, 10>>, risk_factor), "Monitor for wash trading">>,
        <<RLt(<<8, 10>>, influence_score) /\ Len(transactions) > 500,
          "Potential market maker">>,
        <<RLt(<<8, 10>>, sei_metrics.sei_network_score), "Strong network participant">>,
        <<sei_metrics.staking_amount > 1000000, "Consider for validator program">> >>)

\* the analyze_wallet tool called when the clock shows timestamp: the result
\* dict, or the exception it raises
analyze_wallet(walletData, timestamp) ==
    LET address      == walletData.address
        balance      == walletData.balance
        transactions == walletData.transactions
        whale_score  == calculate_whale_score(balance, TotalSupply)
        risk_factor  == calculate_risk_factor(transactions, balance)
        influence_score == calculate_influence_score(transactions, balance)
        patterns     == analyze_transaction_patterns(transactions)
        sei_metrics  == get_sei_specific_metrics(address, transactions)
        overall_score == OverallScore(whale_score, risk_factor, influence_score)
    IN  IF influence_score = ZeroDivisionError
        THEN [raised |-> ZeroDivisionError]
        ELSE [address |-> address,
              analysis_timestamp |-> timestamp,
              classification |->
                  Classification(whale_score, influence_score, sei_metrics),
              scores |->
                  [whale_score       |-> Round3(whale_score),
                   risk_factor       |-> Round3(risk_factor),
                   influence_score   |-> Round3(influence_score),
                   overall_score     |-> Round3(overall_score),
                   sei_network_score |-> Round3(sei_metrics.sei_network_score)],
              wallet_metrics |->
                  [balance_sei       |-> balance,
                   transaction_count |-> Len(transactions),
                   estimated_usd_value |-> Rat(balance * 45, 100),
                   balance_percentage_of_supply |-> Rat(balance, 100000000)],
              transaction_patterns |-> patterns,
              sei_specific |-> sei_metrics,
              risk_assessment |->
                  [level   |-> RiskLevel(risk_factor),
                   factors |-> RiskFactors(transactions, balance)],
              recommendations |->
                  Recommendations(transactions, risk_factor, influence_score,
                                  sei_metrics)]

\* what statistics.stdev raises on fewer than two values
StatisticsError == "StatisticsError"

\* statistics.stdev(values) squared, the sample variance: a standard
\* deviation is kept as its square, which is rational
StdevSquared(values) ==
    IF Len(values) < 2 THEN StatisticsError
    ELSE LET n       == Len(values)
             total   == Sum(values)
             squares == Sum([i \in DOMAIN values |-> values[i] * values[i]])
         IN  Rat(n * squares - total * total, n * (n - 1))

\* statistics.stdev(values) < bound, for at least two values and bound >= 0
StdevLessThan(values, bound) == RLt(StdevSquared(values), RMul(bound, bound))

\* one entry of comparisons, from an item and its analysis, or the exception
\* the analysis raised; scores are in thousandths, as rounded by analyze_wallet
Comparison(addr_data, analysis) ==
    IF "raised" \in DOMAIN analysis THEN analysis
    ELSE [address         |-> addr_data.address,
          whale_score     |-> analysis.scores.whale_score,
          risk_factor     |-> analysis.scores.risk_factor,
          influence_score |-> analysis.scores.influence_score,
          classification  |-> analysis.classification,
          balance         |-> addr_data.balance,
          tx_count        |-> Len(addr_data.transactions)]

\* the loop of compare_addresses: analyze_wallet on each item in turn
RECURSIVE CompareEach(_, _)
CompareEach(addresses, timestamp) ==
    IF addresses = <<>> THEN <<>>
    ELSE <<Comparison(Head(addresses), analyze_wallet(Head(addresses), timestamp))>>
         \o CompareEach(Tail(addresses), timestamp)

\* the result dict of compare_addresses from its three lists
ComparisonResult(comparisons, whale_scores, risk_factors) ==
    IF StdevSquared(whale_scores) = StatisticsError
    THEN [raised |-> StatisticsError]
    ELSE [comparison_summary |->
              [total_addresses     |-> Len(comparisons),
               highest_whale_score |-> MaxOf(whale_scores),
               highest_risk        |-> MaxOf(risk_factors),
               average_whale_score |->
                   Round3(Rat(Sum(whale_scores), 1000 * Len(whale_scores))),
               average_risk        |->
                   Round3(Rat(Sum(risk_factors), 1000 * Len(risk_factors)))],
          individual_analysis |-> comparisons,
          insights |->
              [whale_concentration |->
                   Cardinality({i \in DOMAIN whale_scores : whale_scores[i] > 700}),
               high_risk_addresses |->
                   Cardinality({i \in DOMAIN risk_factors : risk_factors[i] > 700}),
               potential_connections |->
                   IF StdevLessThan(whale_scores, <<100, 1>>)
                   THEN "Manual review recommended"
                   ELSE "No obvious connections"]]

\* what follows the loop, or the exception that ended it
Summarised(comparisons) ==
    IF \E i \in DOMAIN comparisons : "raised" \in DOMAIN comparisons[i]
    THEN [raised |-> ZeroDivisionError]
    ELSE ComparisonResult(comparisons,
                          [i \in DOMAIN comparisons |-> comparisons[i].whale_score],
                          [i \in DOMAIN comparisons |-> comparisons[i].risk_factor])

\* compare_addresses past its guard
Compared(addresses, timestamp) == Summarised(CompareEach(addresses, timestamp))

\* the compare_addresses tool: the result dict, or the exception it raises
compare_addresses(addressData, timestamp) ==
    LET addresses == IF "addresses" \in DOMAIN addressData
                     THEN addressData.addresses ELSE <<>>
    IN  IF Len(addresses) < 2
        THEN [error |-> "At least 2 addresses required for comparison"]
        ELSE Compared(addresses, timestamp)

(***************************************************************************)
(* SeiLiveAnalyzer (analyze_server_live.py). Balances and amounts are      *)
(* whole numbers of SEI: the chain reports them in usei, a million to the  *)
(* SEI, and the analyzer divides by 10 ** 6.                               *)
(***************************************************************************)
\* the message of the exception _make_request raises
FetchFailed == "All Sei endpoints failed"

\* self._cache_ttl, in seconds
CacheTtl == 300

\* the @type values of the first message of a transaction
MsgTypes ==
    {"/cosmos.bank.v1beta1.MsgSend", "/cosmos.staking.v1beta1.MsgDelegate",
     "/cosmos.gov.v1beta1.MsgVote",
     "/cosmos.distribution.v1beta1.MsgWithdrawDelegatorReward"}

\* tx_type: "staking" in msg_type, elif "gov" in msg_type, elif
\* "distribution" in msg_type, over MsgTypes
TxTypeOf(msg_type) ==
    IF msg_type = "/cosmos.staking.v1beta1.MsgDelegate" THEN "staking"
    ELSE IF msg_type = "/cosmos.gov.v1beta1.MsgVote" THEN "governance"
    ELSE IF msg_type = "/cosmos.distribution.v1beta1.MsgWithdrawDelegatorReward"
         THEN "rewards"
    ELSE "transfer"

\* _parse_transaction
parse_transaction(tx, direction) ==
    [timestamp |-> tx.timestamp,
     type      |-> direction,
     tx_type   |-> TxTypeOf(tx.msg_type),
     amount    |-> tx.amount,
     status    |-> IF tx.code = 0 THEN "success" ELSE "failed"]

\* transactions.sort(key=timestamp, reverse=True): the latest first, equal
\* timestamps in their order of arrival
SortedByTimestampDesc(seq) ==
    LET Before(i, j) ==
            \/ seq[i].timestamp > seq[j].timestamp
            \/ seq[i].timestamp = seq[j].timestamp /\ i < j
        placed == {<<1 + Cardinality({j \in DOMAIN seq : Before(j, i)}), i>> :
                      i \in DOMAIN seq}
        At(k) == (CHOOSE pair \in placed : pair[1] = k)[2]
    IN  [k \in DOMAIN seq |-> seq[At(k)]]

\* get_transactions: a fetch is [ok |-> TRUE, txs |-> the "txs" of the answer]
\* or, when the request raised, [ok |-> FALSE, txs |-> <<>>]
\* the sorted list returned whole
get_transactions_untruncated(sent_txs, received_txs, limit) ==
    IF ~sent_txs.ok \/ ~received_txs.ok THEN <<>>
    ELSE SortedByTimestampDesc(
             [i \in DOMAIN sent_txs.txs |->
                 parse_transaction(sent_txs.txs[i], "outgoing")]
             \o [i \in DOMAIN received_txs.txs |->
                 parse_transaction(received_txs.txs[i], "incoming")])

get_transactions(sent_txs, received_txs, limit) ==
    IF ~sent_txs.ok \/ ~received_txs.ok THEN <<>>
    ELSE LET transactions ==
                 [i \in DOMAIN sent_txs.txs |->
                     parse_transaction(sent_txs.txs[i], "outgoing")]
                 \o [i \in DOMAIN received_txs.txs |->
                     parse_transaction(received_txs.txs[i], "incoming")]
             sorted == SortedByTimestampDesc(transactions)
         IN  SubSeq(sorted, 1, IF Len(sorted) < limit THEN Len(sorted) ELSE limit)

\* limit=100 of the get_transactions call of analyze_wallet_live
LiveLimit == 100

\* the ratio without its cap
LiveWhaleScore_uncapped(balance) == Rat(balance, 10000000)

\* whale_score = min(balance / 10000000, 1.0)
LiveWhaleScore(balance) == RMin(Rat(balance, 10000000), <<1, 1>>)

\* k > n * 0.1 for integers 0 <= k <= n, the product taken in binary64
MoreThanTenthOf(k, n) ==
    IF k = 0 THEN FALSE
    ELSE ~FGeq(FMul(Float_0_1, n), FromInt(k))

FailedCount(transactions) ==
    Cardinality({i \in DOMAIN transactions : transactions[i].status = "failed"})

LiveRiskFactor(transactions) ==
    LET base    == <<3, 10>>
        active  == IF Len(transactions) > 1000 THEN RAdd(base, <<3, 10>>) ELSE base
        failing == IF MoreThanTenthOf(FailedCount(transactions), Len(transactions))
                   THEN RAdd(active, <<2, 10>>) ELSE active
    IN  RMin(failing, <<1, 1>>)

LiveInfluenceScore(transactions, balance) ==
    LET total_volume == Sum(Amounts(transactions))
    IN  RMul(RMin(IF balance > 0 THEN Rat(total_volume, balance) ELSE <<0, 1>>,
                  <<1, 1>>),
             <<1, 2>>)

TxTypeCount(transactions, tx_type) ==
    Cardinality({i \in DOMAIN transactions : transactions[i].tx_type = tx_type})

\* the chain with a last branch that gives no label of the enumeration
LiveClassification_unlabelled(whale_score, transactions) ==
    IF RLt(<<8, 10>>, whale_score) THEN "Whale"
    ELSE IF RLt(<<5, 10>>, whale_score) THEN "Large Holder"
    ELSE IF TxTypeCount(transactions, "staking") > 10 THEN "Active Staker"
    ELSE IF Len(transactions) > 100 THEN "Active Trader"
    ELSE "Unknown"

\* the label of analyze_wallet_live (the if/elif chain)
LiveClassification(whale_score, transactions) ==
    IF RLt(<<8, 10>>, whale_score) THEN "Whale"
    ELSE IF RLt(<<5, 10>>, whale_score) THEN "Large Holder"
    ELSE IF TxTypeCount(transactions, "staking") > 10 THEN "Active Staker"
    ELSE IF Len(transactions) > 100 THEN "Active Trader"
    ELSE "Regular User"

\* overall_score of analyze_wallet_live
LiveOverallScore(whale_score, risk_factor, influence_score) ==
    RAdd(RAdd(RMul(whale_score, <<4, 10>>),
              RMul(RSub(<<1, 1>>, risk_factor), <<3, 10>>)),
         RMul(influence_score, <<3, 10>>))

\* the analyze_wallet_live tool, given what its fetches answer
analyze_wallet_live(address, account_info, sent_txs, received_txs) ==
    IF "error" \in DOMAIN account_info
    THEN [address |-> address, error |-> account_info.error, status |-> "failed"]
    ELSE LET transactions    == get_transactions(sent_txs, received_txs, LiveLimit)
             balance         == account_info.balance_sei
             whale_score     == LiveWhaleScore(balance)
             risk_factor     == LiveRiskFactor(transactions)
             failed_txs      == FailedCount(transactions)
             total_volume    == Sum(Amounts(transactions))
             influence_score == LiveInfluenceScore(transactions, balance)
             staking_txs     == TxTypeCount(transactions, "staking")
             reward_txs      == TxTypeCount(transactions, "rewards")
         IN  [address |-> address,
              classification |-> LiveClassification(whale_score, transactions),
              real_data |-> TRUE,
              scores |->
                  [whale_score     |-> Round3(whale_score),
                   risk_factor     |-> Round3(risk_factor),
                   influence_score |-> Round3(influence_score),
                   overall_score   |->
                       Round3(LiveOverallScore(whale_score, risk_factor,
                                               influence_score))],
              wallet_metrics |->
                  [balance_sei          |-> balance,
                   transaction_count    |-> Len(transactions),
                   staking_transactions |-> staking_txs,
                   reward_transactions  |-> reward_txs],
              transaction_analysis |->
                  [total_transactions      |-> Len(transactions),
                   successful_transactions |->
                       Cardinality({i \in DOMAIN transactions :
                                       transactions[i].status = "success"}),
                   failed_transactions     |-> failed_txs,
                   total_volume_sei        |-> total_volume],
              recommendations |-> Triggered(<<
                  <<RLt(<<7, 10>>, whale_score),
                    "High-value wallet - monitor for large movements">>,
                  <<staking_txs > 5, "Active staker - earning rewards">>,
                  <<staking_txs = 0 /\ balance > 1000, "Consider staking for rewards">>,
                  <<MoreThanTenthOf(failed_txs, Len(transactions)),
                    "High transaction failure rate">> >>)]

\* failed analyses are skipped
Analysed(analysis) == IF "error" \in DOMAIN analysis THEN <<>> ELSE <<analysis>>

\* the loop of compare_sei_addresses: analyze_wallet_live on each address in
\* turn, given what the chain answers for it
RECURSIVE AnalyzeEachLive(_)
AnalyzeEachLive(fetched) ==
    IF fetched = <<>> THEN <<>>
    ELSE Analysed(analyze_wallet_live(Head(fetched).account_info.address,
                                      Head(fetched).account_info,
                                      Head(fetched).sent_txs,
                                      Head(fetched).received_txs))
         \o AnalyzeEachLive(Tail(fetched))

\* round(1 - min(x, 1), 3) in thousandths for x >= 0 given by its square
OneMinusRootAt3(square) ==
    IF RLeq(<<1, 1>>, square) THEN 0
    ELSE CHOOSE k \in 0..1000 :
            /\ RLeq(square, Rat((2001 - 2 * k) * (2001 - 2 * k), 4000000))
            /\ k < 1000 => ~RLeq(square, Rat((1999 - 2 * k) * (1999 - 2 * k), 4000000))

\* round(x, 6) in millionths, for x of denominator 1, 2, 3 or 4 (never halfway)
Round6(x) ==
    LET q == (x[1] * 1000000) \div x[2]
        r == (x[1] * 1000000) % x[2]
    IN  IF 2 * r > x[2] THEN q + 1 ELSE q

\* compare_sei_addresses past its second guard
LiveCompared(analyses) ==
    LET balances     == [i \in DOMAIN analyses |-> analyses[i].wallet_metrics.balance_sei]
        whale_scores == [i \in DOMAIN analyses |-> analyses[i].scores.whale_score]
        tx_counts    == [i \in DOMAIN analyses |->
                            analyses[i].wallet_metrics.transaction_count]
        mean         == Mean(balances)
        variance     == StdevSquared(balances)
        \* balance_similarity squared
        similarity   == IF RLt(<<0, 1>>, mean)
                        THEN Rat(variance[1] * mean[2] * mean[2],
                                 variance[2] * mean[1] * mean[1])
                        ELSE <<1, 1>>
    IN  IF RLt(<<0, 1>>, mean) /\ variance = StatisticsError
        THEN [error |-> StatisticsError, status |-> "failed", real_data |-> FALSE]
        ELSE [comparison_summary |->
                  [total_addresses          |-> Len(analyses),
                   successful_analyses      |-> Len(analyses),
                   highest_balance          |-> MaxOf(balances),
                   lowest_balance           |-> MinOf(balances),
                   average_balance          |-> Round6(mean),
                   highest_whale_score      |-> MaxOf(whale_scores),
                   total_combined_balance   |-> Sum(balances),
                   balance_similarity_score |-> OneMinusRootAt3(similarity)],
              individual_analysis |->
                  [i \in DOMAIN analyses |->
                      [address           |-> analyses[i].address,
                       balance_sei       |-> analyses[i].wallet_metrics.balance_sei,
                       classification    |-> analyses[i].classification,
                       whale_score       |-> analyses[i].scores.whale_score,
                       transaction_count |-> analyses[i].wallet_metrics.transaction_count,
                       risk_factor       |-> analyses[i].scores.risk_factor]],
              insights |->
                  [whale_addresses |->
                       Cardinality({i \in DOMAIN whale_scores : whale_scores[i] > 700}),
                   high_activity_addresses |->
                       Cardinality({i \in DOMAIN tx_counts : tx_counts[i] > 100}),
                   potential_related_addresses |->
                       IF RLt(similarity, <<9, 100>>) THEN "Possible" ELSE "Unlikely",
                   combined_influence |->
                       IF Sum(balances) > 1000000 THEN "High"
                       ELSE IF Sum(balances) > 100000 THEN "Medium"
                       ELSE "Low"],
              real_data |-> TRUE]

\* the second guard letting a single analysis through
LiveSummarised_one_suffices(analyses) ==
    IF Len(analyses) < 1
    THEN [error |-> "Could not analyze enough addresses for comparison"]
    ELSE LiveCompared(analyses)

\* what follows the loop of compare_sei_addresses
LiveSummarised(analyses) ==
    IF Len(analyses) < 2
    THEN [error |-> "Could not analyze enough addresses for comparison"]
    ELSE LiveCompared(analyses)

\* the compare_sei_addresses tool, given what the chain answers for each of
\* its addresses
compare_sei_addresses(fetched) ==
    IF Len(fetched) < 2
    THEN [error |-> "At least 2 addresses required for comparison"]
    ELSE LiveSummarised(AnalyzeEachLive(fetched))

(***************************************************************************)
(* SeiLiveAnalyzer._make_request, step by step: a GET is sent to an        *)
(* endpoint, the coroutine is suspended until the endpoint has answered,   *)
(* failed or timed out, and goes on with the outcome.                      *)
(***************************************************************************)
sei_rpc_endpoints ==
    <<"https://rpc.sei-apis.com", "https://sei-rpc.polkachu.com",
      "https://rpc-sei.stingray.plus">>

sei_api_endpoints ==
    <<"https://rest.sei-apis.com", "https://sei-api.polkachu.com",
      "https://api-sei.stingray.plus">>

\* the lists a request is made over; the parameter allows any list
EndpointLists == {sei_rpc_endpoints, sei_api_endpoints, <<>>}

\* what comes of one GET: a response with its status and whether its body
\* parses as JSON, an exception of the connection, or the timeout of 10 s;
\* message is str(e) of the exception the except clause prints
Outcomes ==
    {[kind |-> "response", status |-> st, json |-> body,
      message |-> IF st = 200 /\ body = "not json"
                  THEN "Attempt to decode JSON with unexpected mimetype"
                  ELSE "none"] :
        st \in {200, 404, 503}, body \in {"height 1", "height 2", "not json"}}
    \cup {[kind |-> "exception", status |-> 0, json |-> "none",
           message |-> "Cannot connect to host"],
          [kind |-> "timeout",   status |-> 0, json |-> "none",
           message |-> "TimeoutError"]}

\* any status taken for a success
Returns_any_status(outcome) ==
    outcome.kind = "response" /\ outcome.json # "not json"

\* if response.status == 200: return await response.json()
Returns(outcome) ==
    outcome.kind = "response" /\ outcome.status = 200 /\ outcome.json # "not json"

NoRequest ==
    [phase |-> "none", endpoints |-> <<>>, k |-> 0, in_flight |-> {},
     contacted |-> <<>>, outcomes |-> <<>>, value |-> "none"]

\* the GET of the k-th iteration of the loop is sent, or the loop is over
Iteration(r, k) ==
    IF k <= Len(r.endpoints)
    THEN [r EXCEPT !.phase = "waiting", !.k = k,
                   !.in_flight = {r.endpoints[k]},
                   !.contacted = Append(r.contacted, r.endpoints[k])]
    ELSE [r EXCEPT !.phase = "raised", !.k = k, !.in_flight = {},
                   !.value = FetchFailed]

\* _make_request is called: the loop starts
MakeRequest(endpoints) ==
    /\ request.phase = "none"
    /\ request' = Iteration([NoRequest EXCEPT !.endpoints = endpoints], 1)
    /\ UNCHANGED <<call, ret, prev, now, network_cache, http_network_cache, stats_calls>>

\* the GET in flight ends: the body of a 200 is returned, anything else
\* sends the loop to its next iteration
Outcome(outcome) ==
    /\ request.phase = "waiting"
    /\ LET seen == [request EXCEPT !.outcomes = Append(request.outcomes, outcome),
                                   !.in_flight = {}]
       IN  request' = IF Returns(outcome)
                      THEN [seen EXCEPT !.phase = "returned", !.value = outcome.json]
                      ELSE Iteration(seen, request.k + 1)
    /\ UNCHANGED <<call, ret, prev, now, network_cache, http_network_cache, stats_calls>>

\* the caller has the value or the exception
RequestOver ==
    /\ request.phase \in {"returned", "raised"}
    /\ request' = NoRequest
    /\ UNCHANGED <<call, ret, prev, now, network_cache, http_network_cache, stats_calls>>

(***************************************************************************)
(* SeiLiveAnalyzer.get_network_stats, step by step. The call reads the     *)
(* clock and looks at the cache; when it has to fetch, it is suspended at  *)
(* each of its four requests, and other calls run meanwhile. Each request  *)
(* returns what an endpoint answered or raises when all endpoints failed.  *)
(* Amounts are in usei.                                                    *)
(***************************************************************************)
cache_key == "network_stats"

sei_chain_id == "pacific-1"

\* the clients whose calls the one analyzer of the process serves
Callers == {"client 1", "client 2"}

\* what the endpoints answer to the k-th request of a call: the latest
\* block, the bonded validators, the staking pool, the supply of usei
Answers(k) ==
    CASE k = 1 -> {[height |-> 100, time |-> "block time"]}
      [] k = 2 -> {[validators |-> <<"validator 1", "validator 2">>]}
      [] k = 3 -> {[bonded_tokens |-> 6000000]}
      [] k = 4 -> {[amount |-> a] : a \in {10000000, 0}}

\* the "Parse data" block
network_data(latest_block, validators, staking_pool, supply) ==
    [block_height        |-> latest_block.height,
     block_time          |-> latest_block.time,
     active_validators   |-> Len(validators.validators),
     total_bonded_tokens |-> Rat(staking_pool.bonded_tokens, 1000000),
     total_supply        |-> Rat(supply.amount, 1000000),
     staking_ratio       |-> IF supply.amount > 0
                             THEN Rat(staking_pool.bonded_tokens, supply.amount)
                             ELSE Rat(0, 1),
     chain_id            |-> sei_chain_id]

\* "Fallback to estimated data"; the supply of 10 ** 10 as its two factors
estimated_data(e) ==
    [block_height      |-> 85000000,
     active_validators |-> 100,
     total_supply      |-> TotalSupply,
     staking_ratio     |-> Rat(65, 100),
     error             |-> e]

\* the entries of the cache under the key
Cached == {entry \in network_cache : entry.key = cache_key}

\* the entry is as old as the time it is kept for
Fresh_inclusive(entry, clock) == clock - entry.timestamp <= CacheTtl

\* now - self._network_cache[cache_key]["timestamp"] < self._cache_ttl
Fresh(entry, clock) == clock - entry.timestamp < CacheTtl

NoStatsCall ==
    [pc |-> "idle", now |-> 0, saw |-> {}, fetched |-> <<>>, requests |-> 0,
     outcome |-> "none", result |-> [pending |-> TRUE]]

\* the call starts: with a fresh entry it returns the data of the entry,
\* otherwise its first request is sent. saw is the cache as the call found it
GetNetworkStats(c) ==
    /\ stats_calls[c].pc = "idle"
    /\ LET started == [NoStatsCall EXCEPT !.now = now, !.saw = Cached]
       IN  stats_calls' = [stats_calls EXCEPT ![c] =
               IF \E entry \in Cached : Fresh(entry, now)
               THEN [started EXCEPT !.pc = "done", !.outcome = "cached",
                        !.result = (CHOOSE entry \in Cached : TRUE).data]
               ELSE [started EXCEPT !.pc = "fetching", !.requests = 1]]
    /\ UNCHANGED <<network_cache, now>>
    /\ UNCHANGED outside_stats

\* the request in progress returns: the next one is sent, or, after the
\* fourth, the data are parsed, put in the cache under the time the call
\* read when it started, and returned
StatsFetched(c, body) ==
    LET s       == stats_calls[c]
        fetched == Append(s.fetched, body)
    IN  /\ s.pc = "fetching"
        /\ body \in Answers(s.requests)
        /\ IF s.requests < 4
           THEN /\ stats_calls' = [stats_calls EXCEPT ![c] =
                        [s EXCEPT !.fetched = fetched, !.requests = s.requests + 1]]
                /\ UNCHANGED network_cache
           ELSE /\ stats_calls' = [stats_calls EXCEPT ![c] =
                        [s EXCEPT !.fetched = fetched, !.pc = "done",
                            !.outcome = "fetched",
                            !.result = network_data(fetched[1], fetched[2],
                                                    fetched[3], fetched[4])]]
                /\ network_cache' = (network_cache \ Cached) \cup
                        {[key |-> cache_key, timestamp |-> s.now,
                          data |-> network_data(fetched[1], fetched[2],
                                                fetched[3], fetched[4])]}
        /\ UNCHANGED now
        /\ UNCHANGED outside_stats

\* the failed call puts what it returns in the cache, under its own time
StatsFailed_storing(c) ==
    LET s      == stats_calls[c]
        result == IF Cached # {} THEN (CHOOSE entry \in Cached : TRUE).data
                  ELSE estimated_data(FetchFailed)
    IN  /\ s.pc = "fetching"
        /\ stats_calls' = [stats_calls EXCEPT ![c] =
               [s EXCEPT !.pc = "done",
                         !.outcome = IF Cached # {} THEN "stale" ELSE "estimated",
                         !.result = result]]
        /\ network_cache' = (network_cache \ Cached) \cup
               {[key |-> cache_key, timestamp |-> s.now, data |-> result]}
        /\ UNCHANGED now
        /\ UNCHANGED outside_stats

\* the request in progress raises: the data of the entry in the cache at
\* that moment are returned, whatever its age, or the estimated data
StatsFailed(c) ==
    LET s == stats_calls[c]
    IN  /\ s.pc = "fetching"
        /\ stats_calls' = [stats_calls EXCEPT ![c] =
               IF Cached # {}
               THEN [s EXCEPT !.pc = "done", !.outcome = "stale",
                        !.result = (CHOOSE entry \in Cached : TRUE).data]
               ELSE [s EXCEPT !.pc = "done", !.outcome = "estimated",
                        !.result = estimated_data(FetchFailed)]]
        /\ UNCHANGED <<network_cache, now>>
        /\ UNCHANGED outside_stats

\* the client has the statistics
StatsReturned(c) ==
    /\ stats_calls[c].pc = "done"
    /\ stats_calls' = [stats_calls EXCEPT ![c] = NoStatsCall]
    /\ UNCHANGED <<network_cache, now>>
    /\ UNCHANGED outside_stats

(***************************************************************************)
(* get_network_stats as one step, for the handlers that await it: answer   *)
(* is what its requests come to, the four bodies or a failure.             *)
(***************************************************************************)
StatsAnswers ==
    {[ok |-> FALSE, bodies |-> <<>>]}
    \cup {[ok |-> TRUE, bodies |-> <<b1, b2, b3, b4>>] :
             b1 \in Answers(1), b2 \in Answers(2), b3 \in Answers(3),
             b4 \in Answers(4)}

\* the cache after the call and the statistics returned
get_network_stats(cache, clock, answer) ==
    LET entries == {entry \in cache : entry.key = cache_key}
    IN  IF \E entry \in entries : Fresh(entry, clock)
        THEN [cache |-> cache, data |-> (CHOOSE entry \in entries : TRUE).data]
        ELSE IF answer.ok
        THEN LET data == network_data(answer.bodies[1], answer.bodies[2],
                                      answer.bodies[3], answer.bodies[4])
             IN  [cache |-> (cache \ entries) \cup
                             {[key |-> cache_key, timestamp |-> clock, data |-> data]},
                  data  |-> data]
        ELSE IF entries # {}
        THEN [cache |-> cache, data |-> (CHOOSE entry \in entries : TRUE).data]
        ELSE [cache |-> cache, data |-> estimated_data(FetchFailed)]

\* get_network_stats goes to the network: no entry, or none young enough
Fetches(cache, clock) ==
    ~\E entry \in cache : entry.key = cache_key /\ Fresh(entry, clock)

\* dict.get(key, default)
Get(d, key, default) == IF key \in DOMAIN d THEN d[key] ELSE default

\* the get_sei_network_health tool, given the statistics it awaited.
\* staking_participation is the ratio in tenths of a percent
get_sei_network_health(network_stats, timestamp) ==
    LET staking_ratio     == Get(network_stats, "staking_ratio", Rat(65, 100))
        active_validators == Get(network_stats, "active_validators", 100)
        health_score ==
            RAdd(RAdd(RMul(RMin(RMul(staking_ratio, Rat(10, 6)), Rat(1, 1)), Rat(4, 10)),
                      RMul(RMin(Rat(active_validators, 80), Rat(1, 1)), Rat(4, 10))),
                 Rat(2, 10))
    IN  [network_health |->
             [overall_score |-> Round3(health_score),
              status        |-> IF RLt(Rat(9, 10), health_score) THEN "Excellent"
                                ELSE IF RLt(Rat(7, 10), health_score) THEN "Good"
                                ELSE "Fair",
              chain_id      |-> Get(network_stats, "chain_id", "pacific-1"),
              last_updated  |-> timestamp],
         live_metrics |-> network_stats,
         analysis |->
             [staking_participation |-> Round3(staking_ratio),
              validator_count  |-> active_validators,
              network_security |-> IF RLt(Rat(6, 10), staking_ratio)
                                   THEN "High" ELSE "Medium",
              latest_block     |-> Get(network_stats, "block_height", 0)],
         real_data   |-> TRUE,
         data_source |-> "sei-blockchain-apis"]

(***************************************************************************)
(* analyze_network_health (analyze_server.py): the metrics are fixed in    *)
(* the code. bonded_tokens and total_supply are kept as two factors;       *)
(* decentralization_score, the rounded product of two floats, is left out. *)
(***************************************************************************)
analyze_network_health(timestamp) ==
    LET block_time      == Rat(48, 100)
        validator_ratio == Rat(95, 100)
        staking_ratio   == Rat(65, 100)
        network_health_score ==
            RAdd(RAdd(RMul(validator_ratio, Rat(3, 10)),
                      RMul(staking_ratio, Rat(4, 10))),
                 RMul(IF RLt(block_time, Rat(1, 1)) THEN Rat(1, 1) ELSE Rat(8, 10),
                      Rat(3, 10)))
    IN  [network_health |->
             [overall_score |-> Round3(network_health_score),
              status        |-> IF RLt(Rat(9, 10), network_health_score) THEN "Excellent"
                                ELSE IF RLt(Rat(7, 10), network_health_score) THEN "Good"
                                ELSE "Fair",
              last_updated  |-> timestamp],
         metrics |->
             [block_height |-> 12500000, block_time |-> block_time,
              active_validators |-> 95, total_validators |-> 100,
              bonded_tokens |-> <<65000, 100000>>, total_supply |-> TotalSupply,
              current_inflation |-> Rat(78, 1000), community_pool |-> 50000000],
         analysis |->
             [validator_participation |-> Round3(validator_ratio),
              network_security |-> IF RLt(Rat(6, 10), staking_ratio)
                                   THEN "High" ELSE "Medium",
              block_performance |-> IF RLt(block_time, Rat(6, 10))
                                    THEN "Optimal" ELSE "Good"],
         recommendations |->
             SelectSeq(<<"Network is performing optimally",
                         "Monitor validator participation",
                         "Encourage more staking">>,
                       LAMBDA r :
                           \/ r = "Network is performing optimally"
                                  /\ RLt(Rat(9, 10), network_health_score)
                           \/ r = "Monitor validator participation"
                                  /\ RLt(validator_ratio, Rat(9, 10))
                           \/ r = "Encourage more staking"
                                  /\ RLt(staking_ratio, Rat(6, 10)))]

(***************************************************************************)
(* POST /mcp of the two HTTP adapters (analyze_server_simple_http.py and   *)
(* analyze_server_live_http.py). A request body is                         *)
(*   [kind |-> "invalid"]                 bytes that are not JSON          *)
(*   [kind |-> "array"], [kind |-> "null"]  JSON that is not an object     *)
(*   [kind |-> "object", fields |-> f]    an object with the members f     *)
(* and params and arguments are values of the same form. An id is kept as  *)
(* its JSON text, a method or tool name as the string str() gives, "None"  *)
(* when the member is missing. A message is the sequence of its parts.     *)
(***************************************************************************)
None == "None"

InternalServerError == [status |-> 500, text |-> "Internal Server Error"]

AttributeError == <<"AttributeError: object has no attribute 'get'">>

\* what the try block comes to
Returned(result)           == [kind |-> "return", result |-> result]
HttpRaised(status, detail) == [kind |-> "HTTPException", status_code |-> status,
                               detail |-> detail]
ExceptionRaised(message)   == [kind |-> "Exception", message |-> message]

\* the tool returned a dict, or raised
ToolOutcome(value) ==
    IF "raised" \in DOMAIN value
    THEN ExceptionRaised(<<value.raised>>)
    ELSE Returned(value)

\* walletData.get(...) with the defaults of analyze_wallet
WalletWithDefaults(walletData) ==
    [address      |-> Get(walletData, "address", "unknown"),
     balance      |-> Get(walletData, "balance", 0),
     transactions |-> Get(walletData, "transactions", <<>>)]

tools_list_simple ==
    [tools |-> <<[name |-> "analyze_wallet"], [name |-> "compare_addresses"],
                 [name |-> "analyze_network_health"]>>]

tools_list_live ==
    [tools |-> <<[name |-> "analyze_wallet_live"], [name |-> "compare_sei_addresses"],
                 [name |-> "get_sei_network_health"]>>]

\* tools/call of the simple adapter
ToolCall_simple(params, timestamp) ==
    IF params.kind # "object" THEN ExceptionRaised(AttributeError)
    ELSE LET tool_name == Get(params.fields, "name", None)
             tool_args == Get(params.fields, "arguments",
                              [kind |-> "object", fields |-> <<>>])
         IN  IF tool_name = "analyze_wallet"
             THEN IF tool_args.kind # "object" THEN ExceptionRaised(AttributeError)
                  ELSE ToolOutcome(analyze_wallet(
                           WalletWithDefaults(Get(tool_args.fields, "walletData", <<>>)),
                           timestamp))
             ELSE IF tool_name = "compare_addresses"
             THEN IF tool_args.kind # "object" THEN ExceptionRaised(AttributeError)
                  ELSE ToolOutcome(compare_addresses(
                           Get(tool_args.fields, "addressData", <<>>), timestamp))
             ELSE IF tool_name = "analyze_network_health"
             THEN Returned(analyze_network_health(timestamp))
             ELSE HttpRaised(400, <<"Unknown tool: ", tool_name>>)

\* the try block of the simple adapter, from request.json() on
Try_simple(body, timestamp) ==
    IF body.kind = "invalid" THEN ExceptionRaised(<<"JSONDecodeError">>)
    ELSE IF body.kind # "object" THEN ExceptionRaised(AttributeError)
    ELSE LET method == Get(body.fields, "method", None)
             params == Get(body.fields, "params", [kind |-> "object", fields |-> <<>>])
         IN  IF method = "tools/list" THEN Returned(tools_list_simple)
             ELSE IF method = "tools/call" THEN ToolCall_simple(params, timestamp)
             ELSE HttpRaised(400, <<"Unknown method: ", method>>)

\* tools/call of the live adapter. world is what the chain does meanwhile:
\* the fetches of the wallets and what the requests for the statistics come to
ToolCall_live(params, world, cache, timestamp) ==
    IF params.kind # "object" THEN ExceptionRaised(AttributeError)
    ELSE LET tool_name == Get(params.fields, "name", None)
             tool_args == Get(params.fields, "arguments",
                              [kind |-> "object", fields |-> <<>>])
         IN  IF tool_name = "analyze_wallet_live"
             THEN IF tool_args.kind # "object" THEN ExceptionRaised(AttributeError)
                  ELSE IF Get(tool_args.fields, "address", "") = ""
                  THEN HttpRaised(400, <<"Address is required">>)
                  ELSE Returned(analyze_wallet_live(tool_args.fields.address,
                                    world.fetched[1].account_info,
                                    world.fetched[1].sent_txs,
                                    world.fetched[1].received_txs))
             ELSE IF tool_name = "compare_sei_addresses"
             THEN IF tool_args.kind # "object" THEN ExceptionRaised(AttributeError)
                  ELSE IF Len(Get(tool_args.fields, "addresses", <<>>)) < 2
                  THEN HttpRaised(400, <<"At least 2 addresses required">>)
                  ELSE Returned(compare_sei_addresses(
                           SubSeq(world.fetched, 1, Len(tool_args.fields.addresses))))
             ELSE IF tool_name = "get_sei_network_health"
             THEN Returned(get_sei_network_health(
                      get_network_stats(cache, timestamp, world.stats).data, timestamp))
             ELSE HttpRaised(400, <<"Unknown tool: ", tool_name>>)

\* the try block of the live adapter
Try_live(body, world, cache, timestamp) ==
    IF body.kind = "invalid" THEN ExceptionRaised(<<"JSONDecodeError">>)
    ELSE IF body.kind # "object" THEN ExceptionRaised(AttributeError)
    ELSE LET method == Get(body.fields, "method", None)
             params == Get(body.fields, "params", [kind |-> "object", fields |-> <<>>])
         IN  IF method = "tools/list" THEN Returned(tools_list_live)
             ELSE IF method = "tools/call"
             THEN ToolCall_live(params, world, cache, timestamp)
             ELSE HttpRaised(400, <<"Unknown method: ", method>>)

\* the live adapter calls get_network_stats, which may write the cache
CallsNetworkHealth(body) ==
    /\ body.kind = "object"
    /\ LET method == Get(body.fields, "method", None)
           params == Get(body.fields, "params", [kind |-> "object", fields |-> <<>>])
       IN  /\ method = "tools/call"
           /\ params.kind = "object"
           /\ Get(params.fields, "name", None) = "get_sei_network_health"

CacheAfter_live(body, world, cache, timestamp) ==
    IF CallsNetworkHealth(body)
    THEN get_network_stats(cache, timestamp, world.stats).cache
    ELSE cache

\* an except clause: the id is looked up in body again when body is bound
ErrorEnvelope(body, code, message) ==
    IF body.kind = "invalid"
    THEN [status |-> 200,
          json |-> [jsonrpc |-> "2.0", id |-> "1",
                    error |-> [code |-> code, message |-> message]]]
    ELSE IF body.kind # "object"
    THEN InternalServerError
    ELSE [status |-> 200,
          json |-> [jsonrpc |-> "2.0", id |-> Get(body.fields, "id", "1"),
                    error |-> [code |-> code, message |-> message]]]

\* the return at the end of the try block
ResultEnvelope(body, result) ==
    [status |-> 200,
     json |-> [jsonrpc |-> "2.0", id |-> Get(body.fields, "id", "1"),
               result |-> result]]

\* str(e) of an HTTPException
HttpExceptionStr(outcome) == <<"400: ">> \o outcome.detail

\* except Exception only: an HTTPException is answered as any exception
Respond_simple(body, outcome) ==
    IF outcome.kind = "return" THEN ResultEnvelope(body, outcome.result)
    ELSE IF outcome.kind = "HTTPException"
    THEN ErrorEnvelope(body, -32603, HttpExceptionStr(outcome))
    ELSE ErrorEnvelope(body, -32603, outcome.message)

\* except HTTPException, then except Exception
Respond_live(body, outcome) ==
    IF outcome.kind = "return" THEN ResultEnvelope(body, outcome.result)
    ELSE IF outcome.kind = "HTTPException"
    THEN ErrorEnvelope(body, outcome.status_code, outcome.detail)
    ELSE ErrorEnvelope(body, -32603, outcome.message)

(***************************************************************************)
(* The state: the call being served, what it returned, and the call before *)
(* it with its return value.                                               *)
(***************************************************************************)
NoCall == [op |-> "none"]

Init ==
    /\ call = NoCall
    /\ ret = "none"
    /\ prev = [call |-> NoCall, ret |-> "none"]
    /\ now = 0
    /\ request = NoRequest
    /\ network_cache = {}
    /\ http_network_cache = {}
    /\ stats_calls = [c \in Callers |-> NoStatsCall]

(***************************************************************************)
(* calculate_whale_score on its own, over balances at and around each      *)
(* breakpoint of the table and around zero.                                *)
(***************************************************************************)
\* how far around zero and around each breakpoint the balances reach
Delta == 1

\* the balances holding exactly 1%, 0.1%, 0.01%, 0.001%, 0.0001% of the supply
Breakpoints == {100000000, 10000000, 1000000, 100000, 10000}

Balances ==
    (-Delta..Delta) \cup {b + d : b \in Breakpoints, d \in -Delta..Delta}

CalculateWhaleScore(balance) ==
    /\ call' = [op |-> "calculate_whale_score", balance |-> balance]
    /\ ret'  = calculate_whale_score(balance, TotalSupply)
    /\ prev' = [call |-> call, ret |-> ret]
    /\ UNCHANGED outside_tools

NextWhale == \E balance \in Balances : CalculateWhaleScore(balance)

SpecWhale == Init /\ [][NextWhale]_vars

(***************************************************************************)
(* The analyze_wallet tool, over wallet snapshots built from a balance, a  *)
(* transaction count and a profile of the transactions.                    *)
(***************************************************************************)
\* the longest transaction list
MaxTx == 1200

TxCounts == {0, 1, 2, 3, 100, 101, 500, 501, 1000, 1001, MaxTx}

WalletBalances == {0, 10, 1000, 100000, 5000000, 10000000}

\* the amounts of a snapshot are multiples of this unit: a tenth of the
\* balance (one coin for an empty wallet, 10,000 for the large holders)
AmountUnit(balance) ==
    IF balance = 0 THEN 1
    ELSE IF balance <= 100000 THEN balance \div 10
    ELSE 10000

\* a profile: the amount of the first and of the other transactions (in
\* units), who the counterparties are, and the type tags
Profiles == {
    [first |-> 1,  rest |-> 1, cp |-> "absent",  spread |-> 1,  dir |-> "none"],
    [first |-> 1,  rest |-> 1, cp |-> "pair",    spread |-> 1,  dir |-> "alternate"],
    [first |-> 2,  rest |-> 2, cp |-> "fan_out", spread |-> 1,  dir |-> "outgoing"],
    [first |-> 5,  rest |-> 5, cp |-> "fan_in",  spread |-> 10, dir |-> "incoming"],
    [first |-> 10, rest |-> 0, cp |-> "fan_in",  spread |-> 30, dir |-> "alternate"],
    [first |-> 6,  rest |-> 1, cp |-> "fan_in",  spread |-> 30, dir |-> "staking"],
    [first |-> 0,  rest |-> 0, cp |-> "fan_out", spread |-> 1,  dir |-> "two_in_three"],
    [first |-> 1,  rest |-> 1, cp |-> "pair",    spread |-> 1,  dir |-> "Staking"],
    [first |-> 2,  rest |-> 2, cp |-> "fan_out_chain", spread |-> 1, dir |-> "staking"] }

TxFrom(p, i) ==
    CASE p.cp = "absent"  -> Absent
      [] p.cp = "pair"    -> <<"sei1", 1>>
      [] p.cp = "fan_out" -> <<"sei1", 0>>
      [] p.cp = "fan_out_chain" -> <<"sei1", 0>>
      [] p.cp = "fan_in"  -> <<"0x", i % p.spread>>

TxTo(p, i) ==
    CASE p.cp = "absent"  -> Absent
      [] p.cp = "pair"    -> <<"sei1", 2>>
      [] p.cp = "fan_out" -> <<"0x", i>>
      [] p.cp = "fan_out_chain" -> <<"sei1", i>>
      [] p.cp = "fan_in"  -> Absent

TxType(p, i) ==
    CASE p.dir = "none"         -> ""
      [] p.dir = "incoming"     -> "incoming"
      [] p.dir = "outgoing"     -> "outgoing"
      [] p.dir = "alternate"    -> IF i % 2 = 1 THEN "incoming" ELSE "outgoing"
      [] p.dir = "two_in_three" -> IF i % 3 = 0 THEN "outgoing" ELSE "incoming"
      [] p.dir = "staking"      -> "staking"
      [] p.dir = "Staking"      -> "Staking"

TxList(n, p, balance) ==
    [i \in 1..n |->
        [amount |-> (IF i = 1 THEN p.first ELSE p.rest) * AmountUnit(balance),
         type   |-> TxType(p, i),
         from   |-> TxFrom(p, i),
         to     |-> TxTo(p, i)]]

AllSnapshots ==
    {[address |-> "sei1wallet", balance |-> b, transactions |-> TxList(n, p, b)] :
        b \in WalletBalances, n \in TxCounts, p \in Profiles}

\* no score of the snapshot is rounded from a value halfway between two
\* thousandths (whale_score, risk_factor and sei_network_score never are)
RoundsAwayFromHalfway(walletData) ==
    LET whale_score     == calculate_whale_score(walletData.balance, TotalSupply)
        risk_factor     == calculate_risk_factor(walletData.transactions, walletData.balance)
        influence_score == calculate_influence_score(walletData.transactions, walletData.balance)
    IN  \/ influence_score = ZeroDivisionError
        \/ /\ ~HalfwayAt3(influence_score)
           /\ ~HalfwayAt3(OverallScore(whale_score, risk_factor, influence_score))

Snapshots == {walletData \in AllSnapshots : RoundsAwayFromHalfway(walletData)}

\* a tool call is served from start to end; the server then waits for the next
AnalyzeWallet(walletData) ==
    /\ call = NoCall
    /\ call' = [op |-> "analyze_wallet", walletData |-> walletData]
    /\ ret'  = analyze_wallet(walletData, now)
    /\ prev' = prev
    /\ UNCHANGED outside_tools

(***************************************************************************)
(* The analyze_wallet_live tool, over what the chain answers: the account, *)
(* and the transactions the wallet sent and received.                      *)
(***************************************************************************)
\* the most transactions one request is answered with
MaxPerFetch == 60

FetchCounts == {0, 6, 11, MaxPerFetch}

LiveBalances == {0, 1000, 5000000, 5010000, 8000000, 8010000, 20000000}

\* what the transactions of an answer look like: their amount, their message
\* type, and which of them failed (every fail_every-th, none for 0)
LiveProfiles == {
    [amount |-> 100,   msg_type |-> "/cosmos.bank.v1beta1.MsgSend",        fail_every |-> 0],
    [amount |-> 10000, msg_type |-> "/cosmos.staking.v1beta1.MsgDelegate", fail_every |-> 10],
    [amount |-> 10000, msg_type |-> "/cosmos.gov.v1beta1.MsgVote",         fail_every |-> 5],
    [amount |-> 0,
     msg_type |-> "/cosmos.distribution.v1beta1.MsgWithdrawDelegatorReward",
     fail_every |-> 9] }

\* the answer to one request: n transactions, at the even (sent) or odd
\* (received) instants
Answer(n, p, parity) ==
    [ok  |-> TRUE,
     txs |-> [i \in 1..n |->
                 [timestamp |-> 2 * i + parity,
                  amount    |-> p.amount,
                  msg_type  |-> p.msg_type,
                  code      |-> IF p.fail_every > 0 /\ i % p.fail_every = 0
                                THEN 5 ELSE 0]]]

\* the request raised: every endpoint failed
NoAnswer == [ok |-> FALSE, txs |-> <<>>]

Histories ==
    {[sent_txs |-> Answer(s, p, 0), received_txs |-> Answer(r, p, 1)] :
        s \in FetchCounts, r \in {0, 1, MaxPerFetch}, p \in LiveProfiles}
    \cup
    {[sent_txs |-> NoAnswer, received_txs |-> Answer(1, p, 1)] : p \in LiveProfiles}
    \cup
    {[sent_txs |-> Answer(1, p, 0), received_txs |-> NoAnswer] : p \in LiveProfiles}

AllLiveFetches ==
    {[account_info |-> [address |-> "sei1wallet", balance_sei |-> b],
      sent_txs |-> h.sent_txs, received_txs |-> h.received_txs] :
        b \in LiveBalances, h \in Histories}

\* no score of the analysis is rounded from a value halfway between two
\* thousandths
LiveRoundsAwayFromHalfway(f) ==
    LET transactions    == get_transactions(f.sent_txs, f.received_txs, LiveLimit)
        whale_score     == LiveWhaleScore(f.account_info.balance_sei)
        risk_factor     == LiveRiskFactor(transactions)
        influence_score == LiveInfluenceScore(transactions, f.account_info.balance_sei)
    IN  /\ ~HalfwayAt3(whale_score)
        /\ ~HalfwayAt3(influence_score)
        /\ ~HalfwayAt3(LiveOverallScore(whale_score, risk_factor, influence_score))

\* get_account_info failed: the transactions are not asked for
FailedAccount ==
    [account_info |-> [address |-> "sei1wallet", balance_sei |-> 0,
                       error |-> FetchFailed],
     sent_txs |-> NoAnswer, received_txs |-> NoAnswer]

LiveFetches ==
    {FailedAccount} \cup {f \in AllLiveFetches : LiveRoundsAwayFromHalfway(f)}

AnalyzeWalletLive(f) ==
    /\ call = NoCall
    /\ call' = [op |-> "analyze_wallet_live", address |-> "sei1wallet",
                account_info |-> f.account_info,
                sent_txs |-> f.sent_txs, received_txs |-> f.received_txs]
    /\ ret'  = analyze_wallet_live("sei1wallet", f.account_info,
                                   f.sent_txs, f.received_txs)
    /\ prev' = prev
    /\ UNCHANGED outside_tools

\* the result (or the error) has been handed to the caller
Return ==
    /\ call # NoCall
    /\ call' = NoCall
    /\ ret'  = "none"
    /\ prev' = prev
    /\ UNCHANGED outside_tools

Next ==
    \/ \E walletData \in Snapshots : AnalyzeWallet(walletData)
    \/ \E f \in LiveFetches : AnalyzeWalletLive(f)
    \/ Return

Spec == Init /\ [][Next]_vars

(***************************************************************************)
(* The methods of SeiAnalyzer called on their own, over the balances and   *)
(* transaction lists of the same snapshots.                                *)
(***************************************************************************)
CalculateRiskFactor(transactions, balance) ==
    /\ call = NoCall
    /\ call' = [op |-> "calculate_risk_factor",
                transactions |-> transactions, balance |-> balance]
    /\ ret'  = calculate_risk_factor(transactions, balance)
    /\ prev' = prev
    /\ UNCHANGED outside_tools

CalculateInfluenceScore(transactions, balance) ==
    /\ call = NoCall
    /\ call' = [op |-> "calculate_influence_score",
                transactions |-> transactions, balance |-> balance]
    /\ ret'  = calculate_influence_score(transactions, balance)
    /\ prev' = prev
    /\ UNCHANGED outside_tools

AnalyzeTransactionPatterns(transactions) ==
    /\ call = NoCall
    /\ call' = [op |-> "analyze_transaction_patterns", transactions |-> transactions]
    /\ ret'  = analyze_transaction_patterns(transactions)
    /\ prev' = prev
    /\ UNCHANGED outside_tools

GetSeiSpecificMetrics(address, transactions) ==
    /\ call = NoCall
    /\ call' = [op |-> "get_sei_specific_metrics",
                address |-> address, transactions |-> transactions]
    /\ ret'  = get_sei_specific_metrics(address, transactions)
    /\ prev' = prev
    /\ UNCHANGED outside_tools

NextScores ==
    \/ \E s \in Snapshots : CalculateRiskFactor(s.transactions, s.balance)
    \/ \E s \in Snapshots : CalculateInfluenceScore(s.transactions, s.balance)
    \/ \E s \in Snapshots : AnalyzeTransactionPatterns(s.transactions)
    \/ \E s \in Snapshots : GetSeiSpecificMetrics(s.address, s.transactions)
    \/ Return

SpecScores == Init /\ [][NextScores]_vars

(***************************************************************************)
(* The comparison tools, over lists of a few wallets: holders of 0.5 and   *)
(* 0.9 whale score with one transaction, a busy holder of 0.7 whale score  *)
(* and high risk, one whose analysis raises; on the live side wallets of a *)
(* few SEI with or without a transaction, and one whose account fetch      *)
(* fails. The risk factors of the wallets are 0.467 and 0.767 and their    *)
(* whale scores whole tenths: no average of up to four of them is halfway  *)
(* between two thousandths.                                                *)
(***************************************************************************)
\* the most items in a compared list
MaxCompared == 3

\* the sequences over S of at most n items
SeqsUpTo(S, n) == UNION {[1..k -> S] : k \in 0..n}

\* the wallets, by address
ComparedAddresses == {"sei1half", "sei1seven", "sei1nine", "sei1raising"}

\* one transaction of a tenth of the unit, without sender or recipient
OneTransfer(balance) ==
    TxList(1, [first |-> 1, rest |-> 1, cp |-> "absent", spread |-> 1, dir |-> "none"],
           balance)

ComparedWallet(address) ==
    CASE address = "sei1half" ->
             [address |-> address, balance |-> 100000,
              transactions |-> OneTransfer(100000)]
      [] address = "sei1seven" ->
             [address |-> address, balance |-> 5000000,
              transactions |->
                  TxList(1001, [first |-> 300, rest |-> 0, cp |-> "fan_in",
                                spread |-> 30, dir |-> "alternate"], 5000000)]
      [] address = "sei1nine" ->
             [address |-> address, balance |-> 10000000,
              transactions |-> OneTransfer(10000000)]
      [] address = "sei1raising" ->
             [address |-> address, balance |-> 0, transactions |-> OneTransfer(0)]

\* the list of wallet data of a list of addresses
WalletsOf(listed) == [i \in DOMAIN listed |-> ComparedWallet(listed[i])]

\* the standard deviation of the whale scores is not 0.1 itself, where the
\* comparison with 0.1 is decided by the rounding of the square root
StdevAwayFromTenth(listed) ==
    \/ Len(listed) < 2
    \/ ~REq(StdevSquared([i \in DOMAIN listed |->
                             Round3(calculate_whale_score(ComparedWallet(listed[i]).balance,
                                                          TotalSupply))]),
            <<10000, 1>>)

\* the lists compared, as the addresses of their items
ComparedLists ==
    {listed \in SeqsUpTo({a \in ComparedAddresses :
                              RoundsAwayFromHalfway(ComparedWallet(a))},
                         MaxCompared) :
        StdevAwayFromTenth(listed)}

\* the arguments of compare_addresses, the items of a list given by their
\* addresses: with or without the addresses key
ComparedArguments ==
    {[listed |-> listed] : listed \in ComparedLists} \cup {[label |-> "no list"]}

AddressData(argument) ==
    IF "listed" \in DOMAIN argument
    THEN [addresses |-> WalletsOf(argument.listed)]
    ELSE argument

CompareAddresses(argument) ==
    /\ call = NoCall
    /\ call' = [op |-> "compare_addresses", argument |-> argument]
    /\ ret'  = compare_addresses(AddressData(argument), now)
    /\ prev' = prev
    /\ UNCHANGED outside_tools

ComparedFetches ==
    {FailedAccount}
    \cup
    {[account_info |-> [address |-> "sei1wallet", balance_sei |-> b],
      sent_txs |-> Answer(n, [amount |-> 1, msg_type |-> "/cosmos.bank.v1beta1.MsgSend",
                              fail_every |-> 0], 0),
      received_txs |-> Answer(0, [amount |-> 1,
                                  msg_type |-> "/cosmos.bank.v1beta1.MsgSend",
                                  fail_every |-> 0], 1)] :
        b \in {0, 2, 3}, n \in {0, 1}}

ComparedFetchLists ==
    {fetched \in SeqsUpTo(ComparedFetches, MaxCompared) :
        \A i \in DOMAIN fetched :
            "error" \in DOMAIN fetched[i].account_info
            \/ LiveRoundsAwayFromHalfway(fetched[i])}

CompareSeiAddresses(fetched) ==
    /\ call = NoCall
    /\ call' = [op |-> "compare_sei_addresses", fetched |-> fetched]
    /\ ret'  = compare_sei_addresses(fetched)
    /\ prev' = prev
    /\ UNCHANGED outside_tools

NextCompare ==
    \/ \E argument \in ComparedArguments : CompareAddresses(argument)
    \/ \E fetched \in ComparedFetchLists : CompareSeiAddresses(fetched)
    \/ Return

SpecCompare == Init /\ [][NextCompare]_vars

(***************************************************************************)
(* One _make_request call after another, over what the endpoints do.       *)
(***************************************************************************)
NextRequest ==
    \/ \E endpoints \in EndpointLists : MakeRequest(endpoints)
    \/ \E outcome \in Outcomes : Outcome(outcome)
    \/ RequestOver

SpecRequest == Init /\ [][NextRequest]_vars

(***************************************************************************)
(* analyze_wallet called again and again while time passes, each result    *)
(* kept by the caller for the next one to be compared with.                *)
(***************************************************************************)
\* the instants the clock is read at, in seconds: around the time the
\* network statistics are kept for, and twice that
Instants == {0, 1, CacheTtl - 1, CacheTtl, CacheTtl + 1, 2 * CacheTtl}

\* time passes
Tick ==
    /\ \E t \in Instants : t > now /\ now' = t
    /\ UNCHANGED <<call, ret, prev, request, network_cache, http_network_cache, stats_calls>>

\* the result (or the error) has been handed to the caller, who keeps it
Remember ==
    /\ call # NoCall
    /\ call' = NoCall
    /\ ret'  = "none"
    /\ prev' = [call |-> call, ret |-> ret]
    /\ UNCHANGED outside_tools

\* wallets with at most one transaction: two that are analysed, with and
\* without it, and one whose analysis raises
RepeatedSnapshots ==
    {walletData \in Snapshots :
        /\ walletData.balance \in {0, 100000}
        /\ Len(walletData.transactions) <= 1
        /\ \A i \in DOMAIN walletData.transactions :
               walletData.transactions[i].from = Absent}

NextRepeated ==
    \/ \E walletData \in RepeatedSnapshots : AnalyzeWallet(walletData)
    \/ Remember
    \/ Tick

SpecRepeated == Init /\ [][NextRepeated]_vars

(***************************************************************************)
(* get_network_stats called by the clients while time passes.              *)
(***************************************************************************)
NextNetwork ==
    \/ \E c \in Callers : GetNetworkStats(c)
    \/ \E c \in Callers : \E k \in 1..4 : \E body \in Answers(k) : StatsFetched(c, body)
    \/ \E c \in Callers : StatsFailed(c)
    \/ \E c \in Callers : StatsReturned(c)
    \/ Tick

SpecNetwork == Init /\ [][NextNetwork]_vars

(***************************************************************************)
(* POST /mcp of the two adapters, over request bodies with and without     *)
(* each member, with known and unknown methods and tools, and arguments    *)
(* the tools accept, reject or raise on.                                   *)
(***************************************************************************)
\* a member that is missing, or has one of the values
With(key, values) == {<<>>} \cup {key :> v : v \in values}

Object(fields) == [kind |-> "object", fields |-> fields]

NotObjects == {[kind |-> "array"], [kind |-> "null"]}

McpIds == {"7", "null"}

McpMethods == {"tools/list", "tools/call", "initialize"}

\* a wallet that is analysed and one whose analysis raises
McpWallets ==
    {walletData \in RepeatedSnapshots :
        walletData.balance = 0 \/ Len(walletData.transactions) = 0}

Arguments_simple ==
    NotObjects
    \cup {Object(<<>>)}
    \cup {Object("walletData" :> walletData) : walletData \in McpWallets}
    \cup {Object("addressData" :> AddressData(argument)) :
             argument \in {[listed |-> <<"sei1half", "sei1nine">>],
                           [listed |-> <<"sei1half">>],
                           [label |-> "no list"]}}

Arguments_live ==
    NotObjects
    \cup {Object(<<>>)}
    \cup {Object("address" :> address) : address \in {"sei1wallet", ""}}
    \cup {Object("addresses" :> addresses) :
             addresses \in {<<>>, <<"sei1wallet">>, <<"sei1wallet", "sei1wallet">>}}

Params(names, arguments) ==
    NotObjects
    \cup {Object(name @@ args) :
             name \in With("name", names \cup {"no_such_tool"}),
             args \in With("arguments", arguments)}

Bodies(params) ==
    {[kind |-> "invalid"]}
    \cup NotObjects
    \cup {Object(id @@ method @@ p) :
             id \in With("id", McpIds), method \in With("method", McpMethods),
             p \in With("params", params)}

Bodies_simple ==
    Bodies(Params({"analyze_wallet", "compare_addresses", "analyze_network_health"},
                  Arguments_simple))

Bodies_live ==
    Bodies(Params({"analyze_wallet_live", "compare_sei_addresses",
                   "get_sei_network_health"},
                  Arguments_live))

\* the chain while a request is served: a wallet with a transfer, the
\* account fetch of the first wallet failing or not
Worlds ==
    LET funded == CHOOSE f \in ComparedFetches :
                      /\ "error" \notin DOMAIN f.account_info
                      /\ f.account_info.balance_sei = 3
                      /\ Len(f.sent_txs.txs) = 1
    IN  {[fetched |-> <<first, funded>>, stats |-> stats] :
            first \in {funded, FailedAccount}, stats \in StatsAnswers}

McpSimple(body) ==
    /\ call = NoCall
    /\ call' = [op |-> "mcp", adapter |-> "simple", body |-> body]
    /\ ret'  = Respond_simple(body, Try_simple(body, now))
    /\ prev' = prev
    /\ UNCHANGED outside_tools

McpLive(body, world) ==
    /\ call = NoCall
    /\ call' = [op |-> "mcp", adapter |-> "live", body |-> body, world |-> world,
                stats_fetch |-> CallsNetworkHealth(body) /\ Fetches(network_cache, now)]
    /\ ret'  = Respond_live(body, Try_live(body, world, network_cache, now))
    /\ network_cache' = CacheAfter_live(body, world, network_cache, now)
    /\ prev' = prev
    /\ UNCHANGED <<now, request, http_network_cache, stats_calls>>

\* GET /network/health of the live adapter: the statistics of the adapter's
\* own analyzer, and the computation of get_sei_network_health written out
\* again in the route
NetworkHealthRoute(stats) ==
    /\ call = NoCall
    /\ call' = [op |-> "GET /network/health", stats |-> stats,
                stats_fetch |-> Fetches(http_network_cache, now)]
    /\ ret'  = [status |-> 200,
                json |-> get_sei_network_health(
                             get_network_stats(http_network_cache, now, stats).data, now)]
    /\ http_network_cache' = get_network_stats(http_network_cache, now, stats).cache
    /\ prev' = prev
    /\ UNCHANGED <<now, request, network_cache, stats_calls>>

\* GET /network/stats of the live adapter; timestamp is the set of the
\* timestamps in the cache after the call, empty for None
NetworkStatsRoute(stats) ==
    /\ call = NoCall
    /\ call' = [op |-> "GET /network/stats", stats |-> stats,
                stats_fetch |-> Fetches(http_network_cache, now)]
    /\ ret'  = [status |-> 200,
                json |-> [network_stats |->
                              get_network_stats(http_network_cache, now, stats).data,
                          real_data |-> TRUE,
                          timestamp |->
                              {entry.timestamp :
                                  entry \in get_network_stats(http_network_cache, now,
                                                              stats).cache}]]
    /\ http_network_cache' = get_network_stats(http_network_cache, now, stats).cache
    /\ prev' = prev
    /\ UNCHANGED <<now, request, network_cache, stats_calls>>

NextMcp ==
    \/ \E body \in Bodies_simple : McpSimple(body)
    \/ \E body \in Bodies_live : \E world \in Worlds : McpLive(body, world)
    \/ Return

SpecMcp == Init /\ [][NextMcp]_vars

(***************************************************************************)
(* The routes of the live adapter that need the network statistics, called *)
(* one after another while time passes.                                    *)
(***************************************************************************)
HealthBodies == {body \in Bodies_live : CallsNetworkHealth(body)}

NextRoutes ==
    \/ \E stats \in StatsAnswers : NetworkHealthRoute(stats)
    \/ \E stats \in StatsAnswers : NetworkStatsRoute(stats)
    \/ \E body \in HealthBodies : \E world \in Worlds : McpLive(body, world)
    \/ Return
    \/ Tick

SpecRoutes == Init /\ [][NextRoutes]_vars

(***************************************************************************)
(* POST /analyze/wallet and POST /analyze/compare of the two adapters. An  *)
(* HTTPException that leaves the route is answered with its status and its *)
(* detail. The live wallet route does not call the analyze_wallet_live     *)
(* tool: it has the computation written out again, modelled here from the  *)
(* lines of the route.                                                     *)
(***************************************************************************)
HttpError(status, detail) == [status |-> status, json |-> [detail |-> detail]]

JsonResponse(content) == [status |-> 200, json |-> content]

\* the except clause of a route of the simple adapter: any exception, an
\* HTTPException raised in the try block included, leaves as a 500
Except_simple(outcome) ==
    IF outcome.kind = "return" THEN JsonResponse(outcome.result)
    ELSE IF outcome.kind = "HTTPException"
    THEN HttpError(500, HttpExceptionStr(outcome))
    ELSE HttpError(500, outcome.message)

\* an HTTPException of the try block kept as raised
Except_reraising(outcome) ==
    IF outcome.kind = "return" THEN JsonResponse(outcome.result)
    ELSE IF outcome.kind = "HTTPException"
    THEN HttpError(outcome.status_code, outcome.detail)
    ELSE HttpError(500, outcome.message)

\* except HTTPException: raise, then except Exception (live adapter)
Except_live(outcome) == Except_reraising(outcome)

\* the try block of /analyze/wallet, simple adapter
TryWallet_simple(body, timestamp) ==
    IF body.kind = "invalid" THEN ExceptionRaised(<<"JSONDecodeError">>)
    ELSE IF body.kind # "object" THEN ExceptionRaised(AttributeError)
    ELSE IF Get(body.fields, "address", "") = ""
    THEN HttpRaised(400, <<"Address is required">>)
    ELSE ToolOutcome(analyze_wallet(
             [address      |-> body.fields.address,
              balance      |-> Get(body.fields, "balance", 1000000),
              transactions |-> Get(body.fields, "transactions", <<>>)],
             timestamp))

\* the try block of /analyze/compare, simple adapter
TryCompare_simple(body, timestamp) ==
    IF body.kind = "invalid" THEN ExceptionRaised(<<"JSONDecodeError">>)
    ELSE IF body.kind # "object" THEN ExceptionRaised(AttributeError)
    ELSE IF Len(Get(body.fields, "addresses", <<>>)) < 2
    THEN HttpRaised(400, <<"At least 2 addresses required">>)
    ELSE ToolOutcome(compare_addresses([addresses |-> body.fields.addresses],
                                       timestamp))

\* the computation of the live wallet route (analyze_server_live_http.py)
RouteWhaleScore(balance) == RMin(Rat(balance, 10000000), Rat(1, 1))

RouteRiskFactor(transactions) ==
    RMin(RAdd(RAdd(Rat(3, 10),
                   IF Len(transactions) > 1000 THEN Rat(3, 10) ELSE Rat(0, 1)),
              IF MoreThanTenthOf(FailedCount(transactions), Len(transactions))
              THEN Rat(2, 10) ELSE Rat(0, 1)),
         Rat(1, 1))

RouteInfluenceScore(transactions, balance) ==
    RMul(RMin(IF balance > 0 THEN Rat(Sum(Amounts(transactions)), balance)
              ELSE Rat(0, 1),
              Rat(1, 1)),
         Rat(1, 2))

\* a chain that looks at the transaction count before the staking count
RouteClassification_trader_first(whale_score, transactions) ==
    IF RLt(Rat(8, 10), whale_score) THEN "Whale"
    ELSE IF RLt(Rat(5, 10), whale_score) THEN "Large Holder"
    ELSE IF Len(transactions) > 10 THEN "Active Trader"
    ELSE IF TxTypeCount(transactions, "staking") > 10 THEN "Active Staker"
    ELSE "Regular User"

RouteClassification(whale_score, transactions) ==
    IF RLt(Rat(8, 10), whale_score) THEN "Whale"
    ELSE IF RLt(Rat(5, 10), whale_score) THEN "Large Holder"
    ELSE IF TxTypeCount(transactions, "staking") > 10 THEN "Active Staker"
    ELSE IF Len(transactions) > 100 THEN "Active Trader"
    ELSE "Regular User"

RouteScores(whale_score, risk_factor, influence_score) ==
    [whale_score     |-> Round3(whale_score),
     risk_factor     |-> Round3(risk_factor),
     influence_score |-> Round3(influence_score),
     overall_score   |->
         Round3(RAdd(RAdd(RMul(whale_score, Rat(4, 10)),
                          RMul(RSub(Rat(1, 1), risk_factor), Rat(3, 10))),
                     RMul(influence_score, Rat(3, 10))))]

RouteResult(address, balance, transactions) ==
    [address |-> address,
     classification |->
         RouteClassification(RouteWhaleScore(balance), transactions),
     real_data |-> TRUE,
     scores |-> RouteScores(RouteWhaleScore(balance), RouteRiskFactor(transactions),
                            RouteInfluenceScore(transactions, balance)),
     wallet_metrics |->
         [balance_sei          |-> balance,
          transaction_count    |-> Len(transactions),
          staking_transactions |-> TxTypeCount(transactions, "staking"),
          reward_transactions  |-> TxTypeCount(transactions, "rewards")],
     transaction_analysis |->
         [total_transactions      |-> Len(transactions),
          successful_transactions |->
              Cardinality({i \in DOMAIN transactions :
                              transactions[i].status = "success"}),
          failed_transactions     |-> FailedCount(transactions),
          total_volume_sei        |-> Sum(Amounts(transactions))],
     recommendations |-> Triggered(<<
         <<RLt(Rat(7, 10), RouteWhaleScore(balance)),
           "High-value wallet - monitor for large movements">>,
         <<TxTypeCount(transactions, "staking") > 5, "Active staker - earning rewards">>,
         <<TxTypeCount(transactions, "staking") = 0 /\ balance > 1000,
           "Consider staking for rewards">>,
         <<MoreThanTenthOf(FailedCount(transactions), Len(transactions)),
           "High transaction failure rate">> >>)]

\* the try block of /analyze/wallet, live adapter; f is what the fetches answer
TryWallet_live(body, f) ==
    IF body.kind = "invalid" THEN ExceptionRaised(<<"JSONDecodeError">>)
    ELSE IF body.kind # "object" THEN ExceptionRaised(AttributeError)
    ELSE IF Get(body.fields, "address", "") = ""
    THEN HttpRaised(400, <<"Address is required">>)
    ELSE IF "error" \in DOMAIN f.account_info
    THEN HttpRaised(500, <<f.account_info.error>>)
    ELSE Returned(RouteResult(body.fields.address, f.account_info.balance_sei,
                              get_transactions(f.sent_txs, f.received_txs, LiveLimit)))

\* what the route does with the result of compare_sei_addresses
CompareOutcome_live(result) ==
    IF "error" \in DOMAIN result
    THEN HttpRaised(500, <<result.error>>)
    ELSE Returned(result)

\* the try block of /analyze/compare, live adapter
TryCompare_live(body, fetched) ==
    IF body.kind = "invalid" THEN ExceptionRaised(<<"JSONDecodeError">>)
    ELSE IF body.kind # "object" THEN ExceptionRaised(AttributeError)
    ELSE IF Len(Get(body.fields, "addresses", <<>>)) < 2
    THEN HttpRaised(400, <<"At least 2 addresses required">>)
    ELSE CompareOutcome_live(compare_sei_addresses(
             SubSeq(fetched, 1, Len(body.fields.addresses))))

WalletRoute_simple(body) ==
    /\ call = NoCall
    /\ call' = [op |-> "POST /analyze/wallet", adapter |-> "simple", body |-> body]
    /\ ret'  = Except_simple(TryWallet_simple(body, now))
    /\ prev' = prev
    /\ UNCHANGED outside_tools

CompareRoute_simple(body) ==
    /\ call = NoCall
    /\ call' = [op |-> "POST /analyze/compare", adapter |-> "simple", body |-> body]
    /\ ret'  = Except_simple(TryCompare_simple(body, now))
    /\ prev' = prev
    /\ UNCHANGED outside_tools

WalletRoute_live(body, f) ==
    /\ call = NoCall
    /\ call' = [op |-> "POST /analyze/wallet", adapter |-> "live", body |-> body,
                fetched |-> f]
    /\ ret'  = Except_live(TryWallet_live(body, f))
    /\ prev' = prev
    /\ UNCHANGED outside_tools

CompareRoute_live(body, fetched) ==
    /\ call = NoCall
    /\ call' = [op |-> "POST /analyze/compare", adapter |-> "live", body |-> body,
                fetched |-> fetched]
    /\ ret'  = Except_live(TryCompare_live(body, fetched))
    /\ prev' = prev
    /\ UNCHANGED outside_tools

\* request bodies of /analyze/wallet: with and without an address, a
\* balance, a transaction
WalletBodies_simple ==
    {[kind |-> "invalid"]} \cup NotObjects
    \cup {Object(address @@ balance @@ transactions) :
             address \in With("address", {"", "sei1wallet"}),
             balance \in With("balance", {0, 100000}),
             transactions \in With("transactions", {<<>>, OneTransfer(100000)})}

WalletBodies_live ==
    {[kind |-> "invalid"]} \cup NotObjects
    \cup {Object(address) : address \in With("address", {"", "sei1wallet"})}

\* request bodies of /analyze/compare: no list, and lists of up to two wallets
CompareBodies_simple ==
    {[kind |-> "invalid"]} \cup NotObjects
    \cup {Object(addresses) :
             addresses \in With("addresses",
                 {<<>>, WalletsOf(<<"sei1half">>), WalletsOf(<<"sei1half", "sei1nine">>)})}

CompareBodies_live ==
    {[kind |-> "invalid"]} \cup NotObjects
    \cup {Object(addresses) :
             addresses \in With("addresses",
                 {<<>>, <<"sei1wallet">>, <<"sei1wallet", "sei1wallet">>})}

NextAnalyzeRoutes ==
    \/ \E body \in WalletBodies_simple : WalletRoute_simple(body)
    \/ \E body \in CompareBodies_simple : CompareRoute_simple(body)
    \/ \E body \in WalletBodies_live : \E f \in LiveFetches : WalletRoute_live(body, f)
    \/ \E body \in CompareBodies_live : \E world \in Worlds :
           CompareRoute_live(body, world.fetched)
    \/ \E f \in LiveFetches : AnalyzeWalletLive(f)
    \/ Return

SpecAnalyzeRoutes == Init /\ [][NextAnalyzeRoutes]_vars

(***************************************************************************)
(* Claims about calculate_whale_score (checked under SpecWhale)            *)
(***************************************************************************)
IsWhaleCall(c) == c.op = "calculate_whale_score"

\* the table of the specification on the exact share p = balance /
\* total_supply * 100: p >= 1.0 iff balance >= 100,000,000, p >= 0.1 iff
\* balance >= 10,000,000, ..., p >= 0.0001 iff balance >= 10,000
TableScore(balance) ==
    IF balance <= 0 THEN <<0, 1>>
    ELSE IF balance >= 100000000 THEN <<1, 1>>
    ELSE IF balance >= 10000000 THEN <<9, 10>>
    ELSE IF balance >= 1000000 THEN <<7, 10>>
    ELSE IF balance >= 100000 THEN <<5, 10>>
    ELSE IF balance >= 10000 THEN <<3, 10>>
    ELSE <<1, 10>>

\* C1: calculate_whale_score returns 0.0 for every balance <= 0 and otherwise
\* the first matching row of the table on p = balance / total_supply * 100,
\* every breakpoint inclusive (the balance holding exactly the breakpoint's
\* share gets the higher band, the balance just below it the lower band).
C1_WhaleScoreIsTable ==
    IsWhaleCall(call) => ret = TableScore(call.balance)

\* C2: calculate_whale_score is monotonically non-decreasing in balance:
\* of two calls, the one with the smaller (or equal) balance, non-positive
\* balances included, never gets the larger score.
C2_WhaleScoreMonotone ==
    (IsWhaleCall(prev.call) /\ IsWhaleCall(call)
        /\ prev.call.balance <= call.balance)
    => RLeq(prev.ret, ret)

\* two calls in increasing order of balance that fall in different bands, the
\* first one with a non-positive balance or not
C2_Witness ==
    /\ IsWhaleCall(prev.call) /\ IsWhaleCall(call)
    /\ 0 < prev.call.balance /\ prev.call.balance < call.balance
    /\ RLt(prev.ret, ret)
    /\ ret = <<1, 1>>


(***************************************************************************)
(* Claims about calculate_risk_factor, calculate_influence_score and       *)
(* analyze_transaction_patterns (checked under SpecScores)                 *)
(***************************************************************************)
IsRiskCall(c) == c.op = "calculate_risk_factor"

IsInfluenceCall(c) == c.op = "calculate_influence_score"

IsPatternsCall(c) == c.op = "analyze_transaction_patterns"

\* the number of distinct addresses that appear as 'from' or 'to'
UniqueAddressCount(transactions) ==
    Cardinality(UNION {{transactions[i].from, transactions[i].to} :
                          i \in DOMAIN transactions} \ {Absent})

\* the three sub-scores as the specification states them, in tenths
FrequencyTerm(transactions) ==
    IF Len(transactions) > 1000 THEN 8
    ELSE IF Len(transactions) > 100 THEN 6 ELSE 3

AmountTerm(transactions, balance) ==
    IF \E i \in DOMAIN transactions : 2 * transactions[i].amount > balance THEN 7
    ELSE IF RLt(Rat(balance, 10), Rat(Sum(Amounts(transactions)), Len(transactions)))
         THEN 6
    ELSE 3

DiversityTerm(transactions) ==
    IF 10 * UniqueAddressCount(transactions) < Len(transactions) THEN 8
    ELSE IF 10 * UniqueAddressCount(transactions) < 3 * Len(transactions) THEN 6
    ELSE 3

\* C3: calculate_risk_factor returns exactly 0.5 for an empty list and any
\* balance; for a non-empty list it returns the arithmetic mean, capped at
\* 1.0, of the frequency, amount-concentration and counterparty-diversity
\* sub-scores, so that 1200 transactions contribute a frequency term of 0.8.
C3_RiskFactorIsMeanOfTerms ==
    IsRiskCall(call) =>
        IF call.transactions = <<>> THEN ret = <<1, 2>>
        ELSE LET terms == FrequencyTerm(call.transactions)
                          + AmountTerm(call.transactions, call.balance)
                          + DiversityTerm(call.transactions)
             IN  /\ ret = RMin(Rat(terms, 30), <<1, 1>>)
                 /\ Len(call.transactions) = 1200 =>
                        \E amount, diversity \in {3, 6, 7, 8} :
                            ret = Rat(8 + amount + diversity, 30)

\* 1200 transactions among very few counterparties: mean(0.8, 0.3, 0.8)
C3_Witness ==
    /\ IsRiskCall(call)
    /\ Len(call.transactions) = 1200
    /\ DiversityTerm(call.transactions) = 8
    /\ ret = <<19, 30>>

\* the value of the specification's formula
InfluenceFormula(transactions, balance) ==
    LET Cap(x)  == IF RLt(<<1, 1>>, x) THEN <<1, 1>> ELSE x
        volume  == Cap(Rat(Sum(Amounts(transactions)), 10 * balance))
        count   == Cap(Rat(Len(transactions), 1000))
        network == Cap(Rat(UniqueAddressCount(transactions), 100))
    IN  RAdd(RAdd(RMul(volume, <<2, 5>>), RMul(count, <<3, 10>>)),
             RMul(network, <<3, 10>>))

\* C4: calculate_influence_score returns exactly 0.1 for an empty list and
\* any balance; for a non-empty list and balance > 0 it returns
\* min(total/(10*balance), 1)*0.4 + min(count/1000, 1)*0.3 +
\* min(unique/100, 1)*0.3, each term capped at 1 before it is weighted.
C4_InfluenceIsWeightedSum ==
    IsInfluenceCall(call) =>
        /\ call.transactions = <<>> => ret = <<1, 10>>
        /\ (call.transactions # <<>> /\ call.balance > 0) =>
               ret = InfluenceFormula(call.transactions, call.balance)

\* a call in which the volume term is capped (the volume is more than ten
\* times the balance) and the two other terms are not
C4_Witness ==
    /\ IsInfluenceCall(call)
    /\ call.balance > 0
    /\ Sum(Amounts(call.transactions)) > 10 * call.balance
    /\ Len(call.transactions) \in 1..999
    /\ UniqueAddressCount(call.transactions) \in 1..99
    /\ RLt(<<2, 5>>, ret) /\ RLt(ret, <<1, 1>>)

\* how many transactions carry this type
TypeCount(transactions, kind) ==
    Cardinality({i \in DOMAIN transactions : transactions[i].type = kind})

\* C10: analyze_transaction_patterns returns the summary
\* {pattern: "no_activity"} for an empty list; for a non-empty list the
\* primary pattern is the first rule that matches, in the order count > 1000
\* (high_frequency_trader), incoming > 2*outgoing (accumulator), outgoing >
\* 2*incoming (distributor), mean > 3*median (irregular_amounts), otherwise
\* regular_user; the incoming and outgoing ratios are the counts divided by
\* the transaction count.
C10_PrimaryPatternByPrecedence ==
    IsPatternsCall(call) =>
        IF call.transactions = <<>> THEN ret.pattern = "no_activity"
        ELSE LET count    == Len(call.transactions)
                 incoming == TypeCount(call.transactions, "incoming")
                 outgoing == TypeCount(call.transactions, "outgoing")
                 frequent == count > 1000
                 gathers  == incoming > 2 * outgoing
                 spreads  == outgoing > 2 * incoming
                 uneven   == RLt(RMul(<<3, 1>>, ret.median_amount), ret.average_amount)
             IN  /\ frequent => ret.primary_pattern = "high_frequency_trader"
                 /\ (~frequent /\ gathers) => ret.primary_pattern = "accumulator"
                 /\ (~frequent /\ ~gathers /\ spreads) =>
                        ret.primary_pattern = "distributor"
                 /\ (~frequent /\ ~gathers /\ ~spreads /\ uneven) =>
                        ret.primary_pattern = "irregular_amounts"
                 /\ (~frequent /\ ~gathers /\ ~spreads /\ ~uneven) =>
                        ret.primary_pattern = "regular_user"
                 /\ ret.incoming_ratio = Rat(incoming, count)
                 /\ ret.outgoing_ratio = Rat(outgoing, count)
                 /\ ret.average_amount = Rat(Sum(Amounts(call.transactions)), count)

\* more than 1000 transactions, all of them incoming: the frequency rule
\* wins over the accumulator rule that also matches
C10_Witness ==
    /\ IsPatternsCall(call)
    /\ Len(call.transactions) > 1000
    /\ TypeCount(call.transactions, "incoming") = Len(call.transactions)
    /\ ret.primary_pattern = "high_frequency_trader"
    /\ ret.incoming_ratio = <<1, 1>>

(***************************************************************************)
(* Claims about the analyze_wallet and analyze_wallet_live tools (checked  *)
(* under Spec)                                                             *)
(***************************************************************************)
IsAnalyzeCall(c) == c.op = "analyze_wallet"

IsLiveCall(c) == c.op = "analyze_wallet_live"

\* C5: for a wallet with balance = 0 and a non-empty transaction list the
\* influence scoring never raises (the division is guarded, the volume term
\* is 0 and the score is the sum of the activity and network terms), and
\* analyze_wallet returns a full analysis, not an error.
C5_ZeroBalanceIsGuarded ==
    (IsAnalyzeCall(call) /\ call.walletData.balance = 0
        /\ call.walletData.transactions # <<>>)
    => /\ "raised" \notin DOMAIN ret
       /\ "scores" \in DOMAIN ret
       /\ LET transactions == call.walletData.transactions
               Cap(x)   == IF RLt(<<1, 1>>, x) THEN <<1, 1>> ELSE x
               activity == RMul(Cap(Rat(Len(transactions), 1000)), <<3, 10>>)
               network  == RMul(Cap(Rat(UniqueAddressCount(transactions), 100)),
                                <<3, 10>>)
           IN  ret.scores.influence_score = Round3(RAdd(activity, network))

\* a score reported in thousandths lies in [0, 1]
InUnitRange(t) == 0 <= t /\ t <= 1000

\* the balance and every amount of the list are non-negative
NonNegative(balance, transactions) ==
    balance >= 0 /\ \A i \in DOMAIN transactions : transactions[i].amount >= 0

\* C6: for every wallet with balance >= 0 and every amount >= 0 for which an
\* analysis is returned, each reported score lies in [0, 1]: whale_score,
\* risk_factor, influence_score, overall_score and sei_network_score of
\* analyze_wallet, and the four scores of analyze_wallet_live.
C6_ScoresInUnitRange ==
    /\ (IsAnalyzeCall(call) /\ "scores" \in DOMAIN ret
          /\ NonNegative(call.walletData.balance, call.walletData.transactions))
       => \A k \in {"whale_score", "risk_factor", "influence_score",
                     "overall_score", "sei_network_score"} :
              InUnitRange(ret.scores[k])
    /\ (IsLiveCall(call) /\ "scores" \in DOMAIN ret
          /\ NonNegative(call.account_info.balance_sei,
                         get_transactions(call.sent_txs, call.received_txs, LiveLimit)))
       => \A k \in {"whale_score", "risk_factor", "influence_score",
                     "overall_score"} :
              InUnitRange(ret.scores[k])

\* a live analysis of a balance above the 10M threshold: the whale score is
\* held at 1, and the wallet has moved funds
C6_Witness ==
    /\ IsLiveCall(call) /\ "scores" \in DOMAIN ret
    /\ call.account_info.balance_sei > 10000000
    /\ ret.scores.whale_score = 1000
    /\ ret.scores.influence_score > 0
    /\ ret.scores.overall_score < 1000

\* C7: in the synthetic analysis overall_score = whale_score*0.3 +
\* (1 - risk_factor)*0.3 + influence_score*0.4 for every input, so that a
\* balance of 5,000,000 with no transactions scores 0.7, 0.5, 0.1 and 0.40
\* overall; in the live analysis the weights are 0.4, 0.3 and 0.3 on the same
\* three terms.
C7_OverallScoreWeights ==
    /\ (IsAnalyzeCall(call) /\ "scores" \in DOMAIN ret) =>
          LET balance      == call.walletData.balance
              transactions == call.walletData.transactions
              whale     == calculate_whale_score(balance, TotalSupply)
              risk      == calculate_risk_factor(transactions, balance)
              influence == calculate_influence_score(transactions, balance)
              weighted  == RAdd(RAdd(RMul(<<3, 10>>, whale),
                                     RMul(<<3, 10>>, RSub(<<1, 1>>, risk))),
                                RMul(<<4, 10>>, influence))
          IN  /\ ret.scores.overall_score = Round3(weighted)
              /\ (balance = 5000000 /\ transactions = <<>>) =>
                     /\ ret.scores.whale_score = 700
                     /\ ret.scores.risk_factor = 500
                     /\ ret.scores.influence_score = 100
                     /\ ret.scores.overall_score = 400
    /\ (IsLiveCall(call) /\ "scores" \in DOMAIN ret) =>
          LET balance      == call.account_info.balance_sei
              transactions == get_transactions(call.sent_txs, call.received_txs,
                                               LiveLimit)
              whale     == LiveWhaleScore(balance)
              risk      == LiveRiskFactor(transactions)
              influence == LiveInfluenceScore(transactions, balance)
              weighted  == RAdd(RAdd(RMul(<<4, 10>>, whale),
                                     RMul(<<3, 10>>, RSub(<<1, 1>>, risk))),
                                RMul(<<3, 10>>, influence))
          IN  ret.scores.overall_score = Round3(weighted)

\* the end-to-end scenario: 5,000,000 SEI and no transactions
C7_Witness ==
    /\ IsAnalyzeCall(call)
    /\ call.walletData.balance = 5000000
    /\ call.walletData.transactions = <<>>
    /\ ret.scores.overall_score = 400

\* C8: the synthetic classification is decided by ordered precedence, first
\* match wins: whale_score >= 0.8 Whale; else whale_score >= 0.5 Large
\* Holder; else influence_score >= 0.7 Active Trader; else defi_participation
\* DeFi User; else staking_amount > 0 Staker; else Regular User. A later
\* rule's label is returned only when every earlier condition is false.
C8_ClassificationPrecedence ==
    (IsAnalyzeCall(call) /\ "scores" \in DOMAIN ret) =>
        LET balance      == call.walletData.balance
            transactions == call.walletData.transactions
            whale      == calculate_whale_score(balance, TotalSupply)
            influence  == calculate_influence_score(transactions, balance)
            isWhale    == ~RLt(whale, <<4, 5>>)
            isLarge    == ~RLt(whale, <<1, 2>>)
            isTrader   == ~RLt(influence, <<7, 10>>)
            isDefi     == ret.sei_specific.defi_participation
            isStaker   == ret.sei_specific.staking_amount > 0
            label      == ret.classification
        IN  /\ label = "Whale" <=> isWhale
            /\ label = "Large Holder" <=> (~isWhale /\ isLarge)
            /\ label = "Active Trader" <=> (~isWhale /\ ~isLarge /\ isTrader)
            /\ label = "DeFi User" <=>
                   (~isWhale /\ ~isLarge /\ ~isTrader /\ isDefi)
            /\ label = "Staker" <=>
                   (~isWhale /\ ~isLarge /\ ~isTrader /\ ~isDefi /\ isStaker)
            /\ label = "Regular User" <=>
                   (~isWhale /\ ~isLarge /\ ~isTrader /\ ~isDefi /\ ~isStaker)

\* a wallet that uses DeFi and stakes: the earlier of the two rules wins
C8_Witness ==
    /\ IsAnalyzeCall(call) /\ "scores" \in DOMAIN ret
    /\ ret.sei_specific.defi_participation
    /\ ret.sei_specific.staking_amount > 0
    /\ ret.classification = "DeFi User"

\* the enumeration of the specification
Labels ==
    {"Whale", "Large Holder", "Active Trader", "Active Staker", "DeFi User",
     "Staker", "Regular User"}

\* C9: classification is total: every analysis, synthetic or live, whatever
\* its scores and chain metrics, carries exactly one label, and the label is
\* one of Whale, Large Holder, Active Trader, Active Staker, DeFi User,
\* Staker, Regular User.
C9_ClassificationIsTotal ==
    ((IsAnalyzeCall(call) \/ IsLiveCall(call)) /\ "scores" \in DOMAIN ret) =>
        /\ "classification" \in DOMAIN ret
        /\ ret.classification \in Labels

\* a live analysis that falls through to the last branch of its chain
C9_Witness ==
    /\ IsLiveCall(call) /\ "scores" \in DOMAIN ret
    /\ ret.scores.whale_score <= 500
    /\ ret.wallet_metrics.staking_transactions <= 10
    /\ ret.wallet_metrics.transaction_count > 0
    /\ ret.classification = "Regular User"

(***************************************************************************)
(* Claims about get_sei_specific_metrics (checked under SpecScores)        *)
(***************************************************************************)
IsMetricsCall(c) == c.op = "get_sei_specific_metrics"

\* the kinds of the snapshots that contain "staking", whatever the case
KindsWithStaking == {"staking", "Staking", "STAKING", "unstaking"}

\* the sum of the amounts of the transactions of a staking kind
StakedAmount(transactions) ==
    Sum([i \in DOMAIN transactions |->
            IF transactions[i].type \in KindsWithStaking
            THEN transactions[i].amount ELSE 0])

\* some transaction goes to an address with the chain's prefix
SomeRecipientOnChain(transactions) ==
    \E i \in DOMAIN transactions :
        transactions[i].to # Absent /\ transactions[i].to[1] = "sei1"

C12_RiskLevelByThresholds ==
    (IsAnalyzeCall(call) /\ "scores" \in DOMAIN ret) =>
        LET risk  == calculate_risk_factor(call.walletData.transactions,
                                           call.walletData.balance)
            level == ret.risk_assessment.level
        IN  /\ level \in {"High", "Medium", "Low"}
            /\ level = "High" <=> RLt(<<7, 10>>, risk)
            /\ level = "Medium" <=> (RLt(<<2, 5>>, risk) /\ ~RLt(<<7, 10>>, risk))
            /\ level = "Low" <=> ~RLt(<<2, 5>>, risk)

\* a risk factor of exactly 0.7, the mean of 0.6, 0.7 and 0.8: still Medium
C12_Witness ==
    /\ IsAnalyzeCall(call) /\ "scores" \in DOMAIN ret
    /\ calculate_risk_factor(call.walletData.transactions,
                             call.walletData.balance) = <<7, 10>>
    /\ ret.risk_assessment.level = "Medium"

\* the one-element list of a text whose condition holds, else the empty list
Listed(condition, text) == IF condition THEN <<text>> ELSE <<>>

\* C13: the risk assessment factors are exactly the sub-list, in this order,
\* of high transaction frequency, limited counterparties and large
\* transaction amounts whose condition holds: more than 1000 transactions;
\* fewer unique counterparties (the union of the from/to addresses, as in
\* risk_factor) than 10% of the transaction count; some amount above 50% of
\* the balance.
C13_RiskFactorsList ==
    (IsAnalyzeCall(call) /\ "scores" \in DOMAIN ret) =>
        LET transactions == call.walletData.transactions
            balance      == call.walletData.balance
        IN  ret.risk_assessment.factors =
                Listed(Len(transactions) > 1000, "High transaction frequency")
                \o Listed(10 * UniqueAddressCount(transactions) < Len(transactions),
                          "Limited counterparties")
                \o Listed(\E i \in DOMAIN transactions :
                              2 * transactions[i].amount > balance,
                          "Large transaction amounts")

\* C14: the recommendations of analyze_wallet are exactly the sub-list, in
\* this order, of the four advisories whose rule holds, each rule on its own:
\* risk_factor > 0.8; influence_score > 0.8 and more than 500 transactions;
\* chain score > 0.8; staking_amount > 1,000,000. An advisory is present iff
\* its rule holds and none is listed twice.
C14_RecommendationsList ==
    (IsAnalyzeCall(call) /\ "scores" \in DOMAIN ret) =>
        LET transactions == call.walletData.transactions
            balance      == call.walletData.balance
            risk         == calculate_risk_factor(transactions, balance)
            influence    == calculate_influence_score(transactions, balance)
        IN  ret.recommendations =
                Listed(RLt(<<4, 5>>, risk), "Monitor for wash trading")
                \o Listed(RLt(<<4, 5>>, influence) /\ Len(transactions) > 500,
                          "Potential market maker")
                \o Listed(RLt(<<4, 5>>, ret.sei_specific.sei_network_score),
                          "Strong network participant")
                \o Listed(ret.sei_specific.staking_amount > 1000000,
                          "Consider for validator program")

\* three advisories at once, in the order of the rules
C14_Witness ==
    /\ IsAnalyzeCall(call) /\ "scores" \in DOMAIN ret
    /\ ret.recommendations = <<"Potential market maker",
                               "Strong network participant",
                               "Consider for validator program">>

(***************************************************************************)
(* Claims about the comparison tools (checked under SpecCompare)           *)
(***************************************************************************)
IsCompareCall(c) == c.op = "compare_addresses"

IsLiveCompareCall(c) == c.op = "compare_sei_addresses"

\* how many items a compare_addresses call was given
Supplied(c) == IF "listed" \in DOMAIN c.argument THEN Len(c.argument.listed) ELSE 0

\* how many of the addresses of a compare_sei_addresses call have an account
\* the chain answers for
ValidAnalyses(c) ==
    Cardinality({i \in DOMAIN c.fetched : "error" \notin DOMAIN c.fetched[i].account_info})

InsufficientInput(r) ==
    /\ "error" \in DOMAIN r
    /\ r.error \in {"At least 2 addresses required for comparison",
                    "Could not analyze enough addresses for comparison"}
    /\ "comparison_summary" \notin DOMAIN r

\* C15: a comparison given fewer than 2 items (either tool), or of whose
\* addresses fewer than 2 have a valid analysis (compare_sei_addresses), fails
\* with an insufficient-input error and no comparison summary; the standard
\* deviation is never taken of fewer than two values.
C15_InsufficientInputIsAnError ==
    /\ IsCompareCall(call) =>
           /\ Supplied(call) < 2 => InsufficientInput(ret)
           /\ ~("raised" \in DOMAIN ret /\ ret.raised = StatisticsError)
    /\ IsLiveCompareCall(call) =>
           /\ (Len(call.fetched) < 2 \/ ValidAnalyses(call) < 2) => InsufficientInput(ret)
           /\ ~("error" \in DOMAIN ret /\ ret.error = StatisticsError)

\* three addresses of which one has a valid analysis, with a balance
C15_Witness ==
    /\ IsLiveCompareCall(call)
    /\ Len(call.fetched) = 3
    /\ ValidAnalyses(call) = 1
    /\ \E i \in DOMAIN call.fetched :
           /\ "error" \notin DOMAIN call.fetched[i].account_info
           /\ call.fetched[i].account_info.balance_sei > 0
    /\ InsufficientInput(ret)

\* C16: for at least 2 analysed wallets compare_addresses reports "Manual
\* review recommended" iff the population standard deviation of their whale
\* scores is below 0.1, else "No obvious connections", and reports how many
\* of them have whale_score > 0.7 and how many risk_factor > 0.7.
C16_ManualReviewByPopulationStdev ==
    (IsCompareCall(call) /\ "insights" \in DOMAIN ret) =>
        LET wallets == WalletsOf(call.argument.listed)
            n       == Len(wallets)
            whale   == [i \in DOMAIN wallets |->
                           Round3(calculate_whale_score(wallets[i].balance, TotalSupply))]
            risky   == {i \in DOMAIN wallets :
                           RLt(<<7, 10>>, calculate_risk_factor(wallets[i].transactions,
                                                               wallets[i].balance))}
            total   == Sum(whale)
            squares == Sum([i \in DOMAIN whale |-> whale[i] * whale[i]])
            \* the population variance, in thousandths squared, is below 100 * 100
            tight   == n * squares - total * total < 10000 * n * n
        IN  /\ ret.insights.potential_connections =
                   (IF tight THEN "Manual review recommended" ELSE "No obvious connections")
            /\ ret.insights.whale_concentration =
                   Cardinality({i \in DOMAIN whale : whale[i] > 700})
            /\ ret.insights.high_risk_addresses = Cardinality(risky)

(***************************************************************************)
(* Claim about repeated analyses (checked under SpecRepeated)              *)
(***************************************************************************)
\* C17: two calls of analyze_wallet on the same wallet snapshot, at any two
\* times, return results identical in every field.
C17_SameSnapshotSameResult ==
    (/\ IsAnalyzeCall(call)
     /\ IsAnalyzeCall(prev.call)
     /\ call.walletData = prev.call.walletData) => ret = prev.ret

(***************************************************************************)
(* Claim about _make_request (checked under SpecRequest)                   *)
(***************************************************************************)
Failed(outcome) == ~(outcome.kind = "response" /\ outcome.status = 200
                     /\ outcome.json # "not json")

\* C18: _make_request contacts the endpoints in list order, one at a time:
\* an endpoint is contacted only after every endpoint before it has failed
\* (exception, timeout, non-200 status), at most one GET is in flight, the
\* first endpoint answering 200 gives the returned value, and no endpoint is
\* contacted after it.
C18_SequentialFallback ==
    LET n == Len(request.contacted)
    IN  /\ Cardinality(request.in_flight) <= 1
        /\ n <= Len(request.endpoints)
        /\ request.contacted = SubSeq(request.endpoints, 1, n)
        /\ Len(request.outcomes) = (IF request.phase = "waiting" THEN n - 1 ELSE n)
        /\ request.phase = "waiting" => request.in_flight = {request.endpoints[n]}
        /\ \A i \in DOMAIN request.outcomes :
               ~Failed(request.outcomes[i]) =>
                   /\ i = n
                   /\ request.phase = "returned"
                   /\ request.value = request.outcomes[i].json
        /\ request.phase = "returned" => n > 0 /\ ~Failed(request.outcomes[n])
        /\ request.phase = "raised" =>
               n = Len(request.endpoints) /\ request.value = FetchFailed

\* the third endpoint answers 200 after a non-200 status and a timeout
C18_Witness ==
    /\ request.phase = "returned"
    /\ Len(request.contacted) = 3
    /\ request.outcomes[1].kind = "response" /\ request.outcomes[1].status = 503
    /\ request.outcomes[2].kind = "timeout"
    /\ request.value = "height 2"

(***************************************************************************)
(* Claim about the cache of get_network_stats (checked under SpecNetwork)  *)
(***************************************************************************)
\* what a call that has started did, given the cache as it found it
C19_Served(s) ==
    IF \E entry \in s.saw : s.now - entry.timestamp < 300
    THEN /\ s.pc = "done"
         /\ s.requests = 0
         /\ \A entry \in s.saw : s.result = entry.data
    ELSE s.requests >= 1

\* C19: a call of get_network_stats that finds an entry stored under the
\* time t, at a time now with now - t < 300 seconds, returns the data of the
\* entry and makes no request; a call that finds no entry, or one with
\* now - t >= 300, makes requests, and when its four requests have returned
\* the cache holds the data it parsed, under the time the call read.
C19_ServedFromTtlCache ==
    [][\A c \in Callers :
          /\ stats_calls'[c].pc # "idle" => C19_Served(stats_calls'[c])
          /\ (stats_calls[c].pc = "fetching" /\ stats_calls[c].requests = 4
                  /\ Len(stats_calls'[c].fetched) = 4)
              => /\ stats_calls'[c].pc = "done"
                 /\ network_cache' =
                        {[key       |-> "network_stats",
                          timestamp |-> stats_calls[c].now,
                          data      |-> stats_calls'[c].result]}]_vars

\* a call made 299 seconds after the time of the entry has been served from
\* the cache, and the entry is one that replaced an earlier one
C19_Witness ==
    \E c \in Callers :
        /\ stats_calls[c].pc = "done"
        /\ stats_calls[c].requests = 0
        /\ \E entry \in stats_calls[c].saw :
               /\ entry.timestamp > 0
               /\ stats_calls[c].now - entry.timestamp = 299
               /\ stats_calls[c].result = entry.data

(***************************************************************************)
(* Claim about the /mcp endpoint (checked under SpecMcp)                   *)
(***************************************************************************)
IsMcpCall == "op" \in DOMAIN call /\ call.op = "mcp"

\* the id of the request: 1 when it has none or cannot be parsed
C20_RequestId ==
    IF call.body.kind = "object" /\ "id" \in DOMAIN call.body.fields
    THEN call.body.fields.id
    ELSE "1"

\* the request names a method or a tool the adapter does not have
C20_Unknown ==
    /\ call.body.kind = "object"
    /\ \/ "method" \notin DOMAIN call.body.fields
       \/ call.body.fields.method \notin {"tools/list", "tools/call"}
       \/ /\ call.body.fields.method = "tools/call"
          /\ "params" \in DOMAIN call.body.fields
          /\ call.body.fields.params.kind = "object"
          /\ "name" \in DOMAIN call.body.fields.params.fields
          /\ call.body.fields.params.fields.name = "no_such_tool"

\* C20: every response of POST /mcp, on both adapters and for any request
\* body, is a JSON-RPC envelope: jsonrpc is "2.0", id is the id of the
\* request (1 when it has none or the body cannot be parsed), exactly one of
\* result and error is present, error has a code and a message, and an
\* unknown method or tool is answered with error.
C20_AlwaysAnEnvelope ==
    IsMcpCall =>
        /\ "json" \in DOMAIN ret
        /\ ret.json.jsonrpc = "2.0"
        /\ ret.json.id = C20_RequestId
        /\ ("result" \in DOMAIN ret.json) # ("error" \in DOMAIN ret.json)
        /\ "error" \in DOMAIN ret.json =>
               {"code", "message"} \subseteq DOMAIN ret.json.error
        /\ C20_Unknown => "error" \in DOMAIN ret.json

(***************************************************************************)
(* Claim about the exhausted fallback list (checked under SpecRequest)     *)
(***************************************************************************)
\* C21: when every endpoint of the list has failed, _make_request raises
\* after contacting each endpoint exactly once, in one pass over the list,
\* and the error it raises carries the message of the last endpoint's error.
C21_ExhaustedCarriesLastError ==
    request.phase = "raised" =>
        /\ request.contacted = request.endpoints
        /\ Len(request.outcomes) = Len(request.endpoints)
        /\ \A i \in DOMAIN request.outcomes : Failed(request.outcomes[i])
        /\ request.endpoints # <<>> =>
               request.value = request.outcomes[Len(request.outcomes)].message

(***************************************************************************)
(* Claim about the cache of the live adapter (checked under SpecRoutes)    *)
(***************************************************************************)
\* C22: the routes of the live adapter that need the network statistics
\* (GET /network/health, GET /network/stats, POST /mcp get_sei_network_health)
\* share one cache entry: once one of them has stored the statistics it
\* fetched, none of them goes to the network again while the entry is
\* younger than 300 seconds.
C22_OneSlotForAllRoutes ==
    [][(/\ call' # call
        /\ "stats_fetch" \in DOMAIN call'
        /\ call'.stats_fetch)
       => \A entry \in network_cache \cup http_network_cache :
              ~(now - entry.timestamp < 300)]_vars

(***************************************************************************)
(* Claims about the routes /analyze/wallet and /analyze/compare (checked   *)
(* under SpecAnalyzeRoutes)                                                *)
(***************************************************************************)
\* the request is one the route has to refuse: no address or an empty one,
\* fewer than two addresses
C23_InvalidInput ==
    /\ "op" \in DOMAIN call
    /\ call.op \in {"POST /analyze/wallet", "POST /analyze/compare"}
    /\ call.body.kind = "object"
    /\ \/ /\ call.op = "POST /analyze/wallet"
          /\ ("address" \notin DOMAIN call.body.fields \/ call.body.fields.address = "")
       \/ /\ call.op = "POST /analyze/compare"
          /\ ("addresses" \notin DOMAIN call.body.fields
              \/ Len(call.body.fields.addresses) < 2)

\* C23: on both adapters POST /analyze/wallet without an address (missing
\* or empty) and POST /analyze/compare with fewer than 2 addresses are
\* answered with status 400 and the validation message, never with 500 and
\* never with a result.
C23_InvalidInputIs400 ==
    C23_InvalidInput =>
        /\ ret.status = 400
        /\ ret.json.detail \in {<<"Address is required">>,
                                <<"At least 2 addresses required">>}

\* the label the precedence gives to a balance and a transaction list
C24_Policy(balance, transactions) ==
    IF balance > 8000000 THEN "Whale"
    ELSE IF balance > 5000000 THEN "Large Holder"
    ELSE IF Cardinality({i \in DOMAIN transactions :
                            transactions[i].tx_type = "staking"}) > 10
    THEN "Active Staker"
    ELSE IF Len(transactions) > 100 THEN "Active Trader"
    ELSE "Regular User"

\* what the tool returns for the data the route fetched
C24_Tool ==
    analyze_wallet_live(call.body.fields.address, call.fetched.account_info,
                        call.fetched.sent_txs, call.fetched.received_txs)

\* C24: the live classification is, first match wins, whale_score > 0.8
\* Whale, whale_score > 0.5 Large Holder, more than 10 staking transactions
\* Active Staker, more than 100 transactions Active Trader, otherwise
\* Regular User; the analyze_wallet_live tool and the live route
\* POST /analyze/wallet both apply it, and give the same classification and
\* the same scores for the same fetched balance and transactions.
C24_LivePolicyShared ==
    /\ ("op" \in DOMAIN call /\ call.op = "analyze_wallet_live"
            /\ "error" \notin DOMAIN ret)
        => ret.classification =
               C24_Policy(call.account_info.balance_sei,
                          get_transactions(call.sent_txs, call.received_txs, 100))
    /\ ("op" \in DOMAIN call /\ call.op = "POST /analyze/wallet"
            /\ call.adapter = "live" /\ ret.status = 200)
        => /\ ret.json.classification =
                  C24_Policy(call.fetched.account_info.balance_sei,
                             get_transactions(call.fetched.sent_txs,
                                              call.fetched.received_txs, 100))
           /\ ret.json.classification = C24_Tool.classification
           /\ ret.json.scores = C24_Tool.scores

\* the route has labelled a wallet of at most 5 000 000 SEI with more than
\* 10 staking transactions
C24_Witness ==
    /\ "op" \in DOMAIN call /\ call.op = "POST /analyze/wallet"
    /\ call.adapter = "live" /\ ret.status = 200
    /\ ret.json.classification = "Active Staker"
    /\ ret.json.wallet_metrics.transaction_count > 10
    /\ ret.json.scores.whale_score <= 500

(***************************************************************************)
(* Claim about the wash-trading advisory (checked under Spec)              *)
(***************************************************************************)
\* C25: calculate_risk_factor never returns more than 0.8, so the rule
\* risk_factor > 0.8 never fires: no result of analyze_wallet lists
\* "Monitor for wash trading".
C25_NoWashTradingAdvice ==
    (IsAnalyzeCall(call) /\ "scores" \in DOMAIN ret) =>
        /\ RLeq(calculate_risk_factor(call.walletData.transactions,
                                      call.walletData.balance), <<8, 10>>)
        /\ ret.scores.risk_factor <= 800
        /\ \A i \in DOMAIN ret.recommendations :
               ret.recommendations[i] # "Monitor for wash trading"

\* the highest risk there is: more than 1000 transactions, one of more than
\* half the balance, fewer than one counterparty in ten transactions
C25_Witness ==
    /\ IsAnalyzeCall(call) /\ "scores" \in DOMAIN ret
    /\ Len(call.walletData.transactions) > 1000
    /\ calculate_risk_factor(call.walletData.transactions,
                             call.walletData.balance) = <<23, 30>>
    /\ ret.scores.risk_factor = 767

(***************************************************************************)
(* Claim about the length of the live transaction list (checked under Spec)*)
(***************************************************************************)
IsLiveAnalyzeCall == "op" \in DOMAIN call /\ call.op = "analyze_wallet_live"

\* C26: get_transactions(address, limit=100) returns at most 100
\* transactions whatever the endpoints answer, so analyze_wallet_live never
\* sees more than 100 (or 1000) transactions: its classification is never
\* "Active Trader" and its risk_factor is 0.3 or 0.5.
C26_LiveListAtMostHundred ==
    IsLiveAnalyzeCall =>
        /\ Len(get_transactions(call.sent_txs, call.received_txs, 100)) <= 100
        /\ "scores" \in DOMAIN ret =>
               /\ ret.wallet_metrics.transaction_count <= 100
               /\ ret.classification # "Active Trader"
               /\ ret.scores.risk_factor \in {300, 500}

\* the endpoints answered more than 100 transactions between them, and the
\* analysis counted 100, with the risk of a high failure rate
C26_Witness ==
    /\ IsLiveAnalyzeCall /\ "scores" \in DOMAIN ret
    /\ Len(call.sent_txs.txs) + Len(call.received_txs.txs) > 100
    /\ ret.wallet_metrics.transaction_count = 100
    /\ ret.scores.risk_factor = 500

(***************************************************************************)
(* Claims about concurrent and failed refreshes of the cache               *)
(* (checked under SpecNetwork)                                             *)
(***************************************************************************)
\* C27: under any interleaving of concurrent get_network_stats calls the
\* timestamp stored in the cache slot never decreases: an entry is never
\* overwritten by an entry stamped with an earlier time.
C27_TimestampNeverDecreases ==
    [][\A old \in network_cache : \A new \in network_cache' :
          new.timestamp >= old.timestamp]_vars

\* the call of c ends in this step without its four requests having returned
C28_RefreshFails(c) ==
    /\ stats_calls[c].pc = "fetching"
    /\ stats_calls'[c].pc = "done"
    /\ Len(stats_calls'[c].fetched) < 4

\* C28: when a refresh of get_network_stats fails the cache slot is left as
\* it was: with an entry in the slot, expired or not, the data of the entry
\* are returned and its timestamp is not renewed; with no entry the
\* estimated data, with an error field, are returned and not stored. The
\* call returns a value in both cases.
C28_FailedRefreshLeavesCache ==
    [][\A c \in Callers :
          C28_RefreshFails(c) =>
              /\ network_cache' = network_cache
              /\ \A entry \in network_cache :
                     /\ entry.key = "network_stats"
                     /\ stats_calls'[c].result = entry.data
              /\ network_cache = {} =>
                     /\ "error" \in DOMAIN stats_calls'[c].result
                     /\ stats_calls'[c].result.block_height = 85000000
                     /\ stats_calls'[c].result.active_validators = 100
                     /\ stats_calls'[c].result.staking_ratio = Rat(65, 100)]_vars

\* a refresh failed with an expired entry in the slot and got the data of
\* the entry; the entry is still the expired one, and the next call, finding
\* it, has sent a request
C28_Witness ==
    \E c, d \in Callers : \E entry \in network_cache :
        /\ c # d
        /\ stats_calls[c].pc = "done"
        /\ stats_calls[c].outcome = "stale"
        /\ stats_calls[c].now - entry.timestamp >= 300
        /\ stats_calls[c].result = entry.data
        /\ stats_calls[d].pc = "fetching"
        /\ stats_calls[d].saw = {entry}
        /\ stats_calls[d].now >= stats_calls[c].now

\* a refresh failed with an empty slot and got the estimated data, and the
\* slot is still empty
C28_WitnessFallback ==
    \E c \in Callers :
        /\ stats_calls[c].pc = "done"
        /\ stats_calls[c].outcome = "estimated"
        /\ "error" \in DOMAIN stats_calls[c].result
        /\ network_cache = {}

(***************************************************************************)
(* Claim about the failed fetches of a live analysis (checked under Spec)  *)
(***************************************************************************)
\* the analysis reports failure: an error, the status "failed", no scores
C29_ReportsFailure ==
    /\ "error" \in DOMAIN ret
    /\ ret.status = "failed"
    /\ "scores" \notin DOMAIN ret

\* the part of the claim about the account fetch
C29_AccountFailureReported ==
    (IsLiveAnalyzeCall /\ "error" \in DOMAIN call.account_info)
        => C29_ReportsFailure

\* C29: analyze_wallet_live reports failure whenever a fetch it depends on
\* has exhausted the endpoints, the account fetch or a transaction fetch; a
\* result with transaction_count 0 means that the transaction fetches
\* succeeded and returned no transaction.
C29_AnyFailedFetchReported ==
    IsLiveAnalyzeCall =>
        /\ ("error" \in DOMAIN call.account_info
               \/ ~call.sent_txs.ok \/ ~call.received_txs.ok)
            => C29_ReportsFailure
        /\ ("scores" \in DOMAIN ret /\ ret.wallet_metrics.transaction_count = 0)
            => /\ call.sent_txs.ok /\ call.received_txs.ok
               /\ call.sent_txs.txs = <<>> /\ call.received_txs.txs = <<>>

(***************************************************************************)
(* Claim about failed tools on the /mcp endpoint (checked under SpecMcp)   *)
(***************************************************************************)
\* the request is a tools/call
C30_ToolsCall ==
    /\ IsMcpCall
    /\ call.body.kind = "object"
    /\ Get(call.body.fields, "method", None) = "tools/call"

\* C30: on the /mcp endpoint of both adapters a tools/call whose tool fails
\* is answered with the error member of the envelope; the result member
\* never wraps an object that itself reports an error.
C30_FailedToolIsError ==
    (C30_ToolsCall /\ "json" \in DOMAIN ret /\ "result" \in DOMAIN ret.json)
        => "error" \notin DOMAIN ret.json.result

\* the same on the live adapter alone
C30_FailedToolIsError_live ==
    (C30_ToolsCall /\ call.adapter = "live"
        /\ "json" \in DOMAIN ret /\ "result" \in DOMAIN ret.json)
        => "error" \notin DOMAIN ret.json.result

====
